---- MODULE Spec2Model ----
(***************************************************************************)
(* A model of the simulation core of space-sandbox-sim: the Barnes-Hut     *)
(* quadtree (model/bh.py), the body collection (model/body_list.py), the   *)
(* spring network (model/springs.py), body merging (utils/utils.py,        *)
(* events/handlers.py, model/spontaneous_body_merging.py).                 *)
(*                                                                         *)
(* Arithmetic is exact.  Positions, radii and masses are integers.  The    *)
(* root region of the tree is centred on the mean position c and has width *)
(* w = 2 * max |pos - c|, which is irrational in general, so the geometry  *)
(* is kept in scaled form: with n bodies, U(b) = n*pos(b) - sum(pos) is    *)
(* n*(pos(b) - c), D2 = max U(b).U(b) is (n*w/2)^2, and a node at depth d  *)
(* whose centre is c + (a, b) * w / 2^(d+1) is the record with fields      *)
(* a, b, depth.  Every comparison the code makes between a coordinate and  *)
(* a region boundary is then a comparison of an integer with an integer    *)
(* multiple of sqrt(D2), which LtRoot decides exactly.                     *)
(***************************************************************************)
EXTENDS Integers, Sequences, FiniteSets, TLC

VARIABLES
    bodies,             \* BodyList: [slots, count]; a slot holds a body id or None
    body,               \* the Body objects ever created: id -> [pos, old_pos, mass, radius]
    force,              \* Body.force of every body: id -> <<fx, fy>>, rationals
    sim,                \* SimState: [current_time_ms, last_time_ms, paused, delta]
    ticks,              \* pygame.time.get_ticks(): the wall clock, in ms
    theta,              \* BarnesHut.theta, a rational
    composites,         \* the list composites of main(): a sequence of sets of body ids
    root,               \* BarnesHut.root: a Node record or NoTree
    overlapping_pairs,  \* BarnesHut.overlapping_pairs: a sequence of <<id1, id2>>
    springs,            \* Springs.springs: a sequence of spring tuples
    op,                 \* the operation performed last, with its inputs
    result,             \* "ok", or the exception that operation raised
    ret,                \* the value that operation returned, where it returns one
    controller,         \* Controller: [running, state, selected_body]
    renderer,           \* Renderer: [selected_body]
    audio               \* AudioQueue and the threads that use it

vars == <<bodies, body, force, sim, ticks, theta, composites, root, overlapping_pairs, springs,
          op, result, ret, controller, renderer, audio>>

\* ------------------------------------------------------------------ bounds

\* The largest number of bodies a configuration holds (BodyList max_bodies).
MaxBodies == 3

\* Subdivision depth at which the floating-point resolution of a region is
\* taken to be exhausted (reached only by bodies at the same position).
MaxDepth == 6

\* The longest overlap list a compute_overlapping_pairs call may leave (the
\* list grows with every call made on the same tree).
MaxPairs == 6

\* The calls of compute_local_forces between two reset_forces.
MaxForceCalls == 2

\* The longest spring list an operation may leave.
MaxSprings == 2

\* The largest number of Body objects created in a behaviour of the body
\* list specification.
MaxCreated == 4

\* The waits of paused turns of main() in a behaviour.
MaxWaits == 3

\* The longest list of points handed to compute_convex_hull.
MaxPoints == 4

\* The value of theta up to which the key b raises it.
MaxTheta == 1

\* The number of calls of AudioQueue.add.
MaxSounds == 2

\* The coordinates the initial bodies are drawn from.
Coords == {0, 1, 2}

\* ----------------------------------------------------------------- helpers

None == 0

Sq(x) == x * x

Abs(x) == IF x < 0 THEN -x ELSE x

Pow2(n) == 2 ^ n

\* p < n * sqrt(D), for integers p, n and D >= 0.
LtRoot(p, n, D) ==
    IF n >= 0
    THEN IF p < 0 THEN TRUE ELSE Sq(p) < Sq(n) * D
    ELSE IF p >= 0 THEN FALSE ELSE Sq(p) > Sq(n) * D

\* p > n * sqrt(D).
GtRoot(p, n, D) == LtRoot(-p, -n, D)

RECURSIVE Gcd(_, _)
Gcd(x, y) == IF y = 0 THEN x ELSE Gcd(y, x % y)

\* The rational n / d (d # 0) in lowest terms with a positive denominator.
Rat(n, d) ==
    LET g == Gcd(Abs(n), Abs(d))
        s == IF d < 0 THEN -1 ELSE 1
    IN  [n |-> (s * n) \div g, d |-> (s * d) \div g]

RZero == Rat(0, 1)

RAdd(p, q) == Rat(p.n * q.d + q.n * p.d, p.d * q.d)

RNeg(p) == [n |-> -p.n, d |-> p.d]

RMul(p, q) == Rat(p.n * q.n, p.d * q.d)

RSub(p, q) == RAdd(p, RNeg(q))

\* p / q, q # 0.
RDiv(p, q) == Rat(p.n * q.d, p.d * q.n)

RAbs(p) == [n |-> Abs(p.n), d |-> p.d]

\* p < q.  A zero denominator stands for float('inf').
RLt(p, q) == p.n * q.d < q.n * p.d

Inf == [n |-> 1, d |-> 0]

\* None where a float is expected.
NoFloat == [n |-> 0, d |-> 0]

\* Vectors of rationals: vec2 + vec2, -vec2.
VZero == <<RZero, RZero>>

VAdd(v, w) == <<RAdd(v[1], w[1]), RAdd(v[2], w[2])>>

VNeg(v) == <<RNeg(v[1]), RNeg(v[2])>>

VSub(v, w) == VAdd(v, VNeg(w))

\* scalar * vec2.
VScale(k, v) == <<RMul(k, v[1]), RMul(k, v[2])>>

\* vec2.length() of an integer vector whose length is an integer (the bodies
\* of the spring specification lie on one axis).
length(v) == CHOOSE r \in 0..(Abs(v[1]) + Abs(v[2])) : Sq(r) = Sq(v[1]) + Sq(v[2])

\* The square root of a square.
Root(x) == CHOOSE r \in 0..x : Sq(r) = x

\* vec2.length() of a vector of rationals whose length is a rational: a
\* vector along one axis, or one whose squared length is a square.
VLength(v) ==
    IF v[2].n = 0 THEN RAbs(v[1])
    ELSE IF v[1].n = 0 THEN RAbs(v[2])
    ELSE Rat(Root(Sq(v[1].n * v[2].d) + Sq(v[2].n * v[1].d)), v[1].d * v[2].d)

RECURSIVE SumSeq(_)
SumSeq(s) == IF s = <<>> THEN 0 ELSE Head(s) + SumSeq(Tail(s))

SetMax(S) == CHOOSE m \in S : \A x \in S : x <= m

Range(s) == {s[i] : i \in 1..Len(s)}

\* ---------------------------------------------------------------- SimState

\* SimState.__new__ followed by update(t): the singleton whose clock was
\* advanced once, to t.  SimState(0) is the singleton as constructed.  delta
\* is None until the first pause() and is read only by resume() while paused.
SimState(t) ==
    [current_time_ms |-> t, last_time_ms |-> 0, paused |-> FALSE, delta |-> None]

\* SimState.time_step_ms.
time_step_ms == sim.current_time_ms - sim.last_time_ms

\* SimState.pause().
SimState_pause(s) ==
    IF ~s.paused
    THEN [s EXCEPT !.paused = TRUE,
                   !.delta = s.current_time_ms - s.last_time_ms]
    ELSE s

\* resume() that leaves last_time_ms where the pause found it.
SimState_resumeKeepLast(s, now) ==
    IF s.paused
    THEN [s EXCEPT !.paused = FALSE, !.current_time_ms = now]
    ELSE s

\* SimState.resume(), now being pygame.time.get_ticks().
SimState_resume(s, now) ==
    IF s.paused
    THEN [s EXCEPT !.paused = FALSE,
                   !.current_time_ms = now,
                   !.last_time_ms = now - s.delta]
    ELSE s

\* SimState.update(time_ms).
SimState_update(s, time_ms) ==
    IF s.paused
    THEN s
    ELSE [s EXCEPT !.last_time_ms = s.current_time_ms,
                   !.current_time_ms = time_ms]

\* -------------------------------------------------------------------- Body

\* Body.vel: (pos - old_pos) / time_step, time_step = time_step_ms / 1000.0.
\* Dividing a vector by zero raises ZeroDivisionError.
vel(id) ==
    IF time_step_ms = 0
    THEN [result |-> "ZeroDivisionError", v |-> VZero]
    ELSE [result |-> "ok",
          v |-> << Rat(1000 * (body[id].pos[1] - body[id].old_pos[1]), time_step_ms),
                   Rat(1000 * (body[id].pos[2] - body[id].old_pos[2]), time_step_ms) >>]

\* pos = value that leaves old_pos where it was.
Body_set_posKeepOld(b, value) == [b EXCEPT !.pos = value]

\* The setter of Body.pos: delta = pos - old_pos; pos = value; old_pos =
\* value - delta.
Body_set_pos(b, value) ==
    LET delta == <<b.pos[1] - b.old_pos[1], b.pos[2] - b.old_pos[2]>>
    IN  [b EXCEPT !.pos = value,
                  !.old_pos = <<value[1] - delta[1], value[2] - delta[2]>>]

\* The setter of Body.vel: old_pos = pos - value * time_step.  The
\* velocities of the specification make value * time_step a whole number.
Body_set_vel(b, value) ==
    [b EXCEPT !.old_pos = << b.pos[1] - (value[1] * time_step_ms) \div 1000,
                             b.pos[2] - (value[2] * time_step_ms) \div 1000 >>]

\* The part of a position that is a multiple of G, the constant of gravity:
\* forces are kept in units of G, so that a body moved by a force stands at
\* pos + G * gpos.  A body that no force has moved has no such part.
GPos(b) == IF "gpos" \in DOMAIN b THEN b.gpos ELSE VZero
GOld(b) == IF "gold" \in DOMAIN b THEN b.gold ELSE VZero

\* Body.update(), lines 130-135: a = force / mass; dt = time_step;
\* pos += pos - old_pos + a * dt ** 2; old_pos = the pos before.  A vector
\* divided by a mass of zero raises ZeroDivisionError.
Body_update(b, f) ==
    IF b.mass = 0
    THEN [result |-> "ZeroDivisionError", b |-> b]
    ELSE LET a == VScale(Rat(1, b.mass), f)
             dt2 == Rat(Sq(time_step_ms), 1000000)
         IN  [result |-> "ok",
              b |-> [k \in DOMAIN b \cup {"gpos", "gold"} |->
                        CASE k = "pos" -> <<2 * b.pos[1] - b.old_pos[1],
                                            2 * b.pos[2] - b.old_pos[2]>>
                          [] k = "old_pos" -> b.pos
                          [] k = "gpos" -> VAdd(VSub(VScale(Rat(2, 1), GPos(b)), GOld(b)),
                                                VScale(dt2, a))
                          [] k = "gold" -> GPos(b)
                          [] OTHER -> b[k]]]

\* ------------------------------------------------------------------ forces

\* The damping main() passes to generate_collision_damping_force.
damping == 100

\* collision_damping_force(body1, body2): -damping * (rel_vel . n) * n with
\* n = displacement / |displacement|, that is
\* -damping * (rel_vel . displacement) / |displacement|^2 * displacement.
collision_damping_force(id1, id2) ==
    LET dx == body[id2].pos[1] - body[id1].pos[1]
        dy == body[id2].pos[2] - body[id1].pos[2]
        dd == Sq(dx) + Sq(dy)
        rsum == body[id1].radius + body[id2].radius
        rel == VSub(vel(id1).v, vel(id2).v)
        along == RAdd(RMul(rel[1], Rat(dx, 1)), RMul(rel[2], Rat(dy, 1)))
        k == RMul(Rat(-damping, dd), along)
    IN  IF rsum < 0 \/ dd > Sq(rsum)
        THEN [result |-> "ok", f |-> VZero]
        ELSE IF dd = 0
        THEN [result |-> "ValueError", f |-> VZero]
        ELSE IF vel(id1).result # "ok"
        THEN [result |-> vel(id1).result, f |-> VZero]
        ELSE IF body[id1].mass = 0
        THEN [result |-> "ZeroDivisionError", f |-> VZero]
        ELSE [result |-> "ok", f |-> <<RMul(k, Rat(dx, 1)), RMul(k, Rat(dy, 1))>>]

\* A force model supplied by the caller that is not antisymmetric in its
\* arguments: body1.mass * (body2.pos - body1.pos).
pull_force(id1, id2) ==
    [result |-> "ok",
     f |-> << Rat(body[id1].mass * (body[id2].pos[1] - body[id1].pos[1]), 1),
              Rat(body[id1].mass * (body[id2].pos[2] - body[id1].pos[2]), 1) >>]

\* The force_model argument of compute_local_forces, by name.
ForceModels == {"collision_damping", "pull"}

force_model(fm, id1, id2) ==
    IF fm = "collision_damping" THEN collision_damping_force(id1, id2)
    ELSE pull_force(id1, id2)

\* ---------------------------------------------------------- MergeCondtion

\* The square of (body1.vel - body2.vel).length().
speed_sq(id1, id2) ==
    LET dv == VSub(vel(id1).v, vel(id2).v)
    IN  RAdd(RMul(dv[1], dv[1]), RMul(dv[2], dv[2]))

\* The condition of MergeCondtion.relative_speed(speed_threshold), lines
\* 129-131 of merge_condition.py: (body1.vel - body2.vel).length() <
\* speed_threshold, the length, which is not negative, compared through its
\* square.  Body.vel raises at a time step of zero.
relative_speed(speed_threshold, id1, id2) ==
    IF vel(id1).result # "ok"
    THEN [result |-> vel(id1).result, value |-> FALSE]
    ELSE [result |-> "ok",
          value |-> speed_threshold > 0
                    /\ RLt(speed_sq(id1, id2), Rat(Sq(speed_threshold), 1))]

\* ---------------------------------------------------------------- BodyList

\* BodyList.__iter__: the bodies in slots [0, count).
Live(bl) == [i \in 1..bl.count |-> bl.slots[i]]

\* The set of the bodies in slots [0, count).
LiveIdsOf(bl) == {bl.slots[i] : i \in 1..bl.count}

\* BodyList.__contains__.
Contains(bl, item) == \E i \in 1..bl.count : bl.slots[i] = item

\* BodyList.index: the first slot in [0, count) that holds item, or ValueError.
\* The message of the ValueError formats the body (Body.__str__, line 101 of
\* body.py), which reads Body.vel: with a time step of zero the exception
\* raised is ZeroDivisionError.  Slots are numbered from 1 here, from 0 in
\* the code.
index(bl, item) ==
    IF item = None
    THEN [result |-> "ValueError", index |-> 0]
    ELSE IF Contains(bl, item)
    THEN [result |-> "ok",
          index |-> CHOOSE i \in 1..bl.count :
                        bl.slots[i] = item /\ \A j \in 1..(i - 1) : bl.slots[j] # item]
    ELSE [result |-> IF time_step_ms = 0 THEN "ZeroDivisionError" ELSE "ValueError",
          index |-> 0]

\* An add that writes over the last slot of a full list.
BodyList_addOverwrite(bl, value) ==
    IF bl.count < Len(bl.slots)
    THEN [result |-> "ok",
          bl |-> [slots |-> [bl.slots EXCEPT ![bl.count + 1] = value],
                  count |-> bl.count + 1]]
    ELSE [result |-> "ok",
          bl |-> [slots |-> [bl.slots EXCEPT ![bl.count] = value], count |-> bl.count]]

\* BodyList.add: the capacity is len(self.bodies).
BodyList_add(bl, value) ==
    IF bl.count < Len(bl.slots)
    THEN [result |-> "ok",
          bl |-> [slots |-> [bl.slots EXCEPT ![bl.count + 1] = value],
                  count |-> bl.count + 1]]
    ELSE [result |-> "IndexError", bl |-> bl]

\* A remove that takes the index count for a valid one.
BodyList_removeUpTo(bl, i) ==
    IF 1 <= i /\ i <= bl.count + 1
    THEN [result |-> "ok",
          bl |-> [slots |-> [k \in 1..Len(bl.slots) |->
                                IF k < i \/ k > bl.count THEN bl.slots[k]
                                ELSE IF k = bl.count THEN None
                                ELSE bl.slots[k + 1]],
                  count |-> bl.count - 1]]
    ELSE [result |-> "IndexError", bl |-> bl]

\* BodyList.remove(i): the slots after i move down by one, the last live
\* slot becomes None.
BodyList_remove(bl, i) ==
    IF 1 <= i /\ i <= bl.count
    THEN [result |-> "ok",
          bl |-> [slots |-> [k \in 1..Len(bl.slots) |->
                                IF k < i \/ k > bl.count THEN bl.slots[k]
                                ELSE IF k = bl.count THEN None
                                ELSE bl.slots[k + 1]],
                  count |-> bl.count - 1]]
    ELSE [result |-> "IndexError", bl |-> bl]

\* BodyList.remove_item.
BodyList_remove_item(bl, item) ==
    IF index(bl, item).result # "ok"
    THEN [result |-> index(bl, item).result, bl |-> bl]
    ELSE BodyList_remove(bl, index(bl, item).index)

\* BodyList.clear.
BodyList_clear(bl) ==
    [slots |-> [k \in 1..Len(bl.slots) |-> None], count |-> 0]

RECURSIVE BodyList_update(_, _, _, _)
\* BodyList.update(), lines 60-62: bodies[i].update() for the slots in
\* [0, count), from slot i on.  bd is the bodies, f their forces; an
\* exception ends the loop, the bodies updated so far stay moved.
BodyList_update(bl, i, bd, f) ==
    IF i > bl.count
    THEN [result |-> "ok", body |-> bd]
    ELSE LET r == Body_update(bd[bl.slots[i]], f[bl.slots[i]])
         IN  IF r.result # "ok"
             THEN [result |-> r.result, body |-> bd]
             ELSE BodyList_update(bl, i + 1, [bd EXCEPT ![bl.slots[i]] = r.b], f)

\* ------------------------------------------------------------- Barnes-Hut

\* pygame.time.wait(100) of a paused turn of main().
wait_ms == 100

\* The step of theta and the value that replaces a theta that is not
\* positive, lines 177-182 of event_proc.py.
theta_step == Rat(1, 2)
theta_floor == Rat(1, 1000000)

NoTree == [kind |-> "None"]

\* Node.__init__: an empty leaf.  center and width are the fields fr (the
\* frame of the build, below), a, b and depth.
Node(fr, a, b, depth) ==
    [kind |-> "Node", fr |-> fr, a |-> a, b |-> b, depth |-> depth,
     mass |-> 0, mom |-> <<0, 0>>, body |-> None, children |-> <<>>,
     exhausted |-> FALSE]

is_leaf(node) == Len(node.children) = 0

\* The frame of a build: the number of bodies, the sums of their coordinates
\* and D2 (see the header).
Frame(ids) ==
    LET n == Len(ids)
        sx == SumSeq([i \in 1..n |-> body[ids[i]].pos[1]])
        sy == SumSeq([i \in 1..n |-> body[ids[i]].pos[2]])
    IN  [n |-> n, sx |-> sx, sy |-> sy,
         D2 |-> SetMax({Sq(n * body[ids[i]].pos[1] - sx) + Sq(n * body[ids[i]].pos[2] - sy)
                         : i \in 1..n})]

\* n * (pos - region_center) of body id.
U(fr, id) == <<fr.n * body[id].pos[1] - fr.sx, fr.n * body[id].pos[2] - fr.sy>>

\* One axis of _contains: center - half_width <= x < center + half_width.
InAxis(node, u, a) ==
    /\ ~LtRoot(u * Pow2(node.depth), a - 1, node.fr.D2)
    /\ LtRoot(u * Pow2(node.depth), a + 1, node.fr.D2)

\* A _contains that takes the upper edge of the region as inside.
_containsClosed(node, id) ==
    /\ node.depth <= MaxDepth
    /\ \A k \in 1..2 :
          LET u == U(node.fr, id)[k] * Pow2(node.depth)
              c == IF k = 1 THEN node.a ELSE node.b
          IN  ~LtRoot(u, c - 1, node.fr.D2) /\ ~GtRoot(u, c + 1, node.fr.D2)

\* BarnesHut._contains.  Below MaxDepth the region has no interior left.
_contains(node, id) ==
    /\ node.depth <= MaxDepth
    /\ InAxis(node, U(node.fr, id)[1], node.a)
    /\ InAxis(node, U(node.fr, id)[2], node.b)

\* BarnesHut._subdivide: the children in the order dx, dy in (-q, -q), (-q, q),
\* (q, -q), (q, q).
_subdivide(node) ==
    [node EXCEPT !.children =
        << Node(node.fr, 2 * node.a - 1, 2 * node.b - 1, node.depth + 1),
           Node(node.fr, 2 * node.a - 1, 2 * node.b + 1, node.depth + 1),
           Node(node.fr, 2 * node.a + 1, 2 * node.b - 1, node.depth + 1),
           Node(node.fr, 2 * node.a + 1, 2 * node.b + 1, node.depth + 1) >>,
        !.exhausted = node.depth >= MaxDepth]

\* The aggregate of an internal node, lines 102-108: mass is the sum of the
\* children's masses, mom = mass * mass_center.
Aggregate(node) ==
    LET m == SumSeq([i \in 1..4 |-> node.children[i].mass])
    IN  [node EXCEPT
            !.mass = m,
            !.mom = IF m > 0
                    THEN << SumSeq([i \in 1..4 |-> node.children[i].mom[1]]),
                            SumSeq([i \in 1..4 |-> node.children[i].mom[2]]) >>
                    ELSE <<0, 0>>,
            !.exhausted = node.exhausted \/ \E i \in 1..4 : node.children[i].exhausted]

RECURSIVE _insert_body(_, _)
\* BarnesHut._insert_body.
_insert_body(node, id) ==
    IF node.body = None /\ is_leaf(node)
    THEN [node EXCEPT !.body = id,
                      !.mass = body[id].mass,
                      !.mom = <<body[id].mass * body[id].pos[1],
                                body[id].mass * body[id].pos[2]>>]
    ELSE
        LET n1 == IF is_leaf(node)
                  THEN [_insert_body(_subdivide(node), node.body) EXCEPT !.body = None]
                  ELSE node
            hit == {i \in 1..4 : _contains(n1.children[i], id)}
            n2 == IF hit = {}
                  THEN n1
                  ELSE LET i == CHOOSE i \in hit : \A j \in hit : i <= j
                       IN  [n1 EXCEPT !.children[i] = _insert_body(n1.children[i], id)]
        IN  Aggregate(n2)

RECURSIVE InsertAll(_, _, _)
\* The loop of build_tree, lines 218-219.
InsertAll(node, ids, i) ==
    IF i > Len(ids) THEN node
    ELSE InsertAll(_insert_body(node, ids[i]), ids, i + 1)

\* The tree build_tree leaves in self.root for a non-empty body list.
BuiltTree(ids) == InsertAll(Node(Frame(ids), 0, 0, 0), ids, 1)

RECURSIVE _query(_, _)
\* BarnesHut._query(node, pos), lines 241-248.  For an internal node the first
\* child is tested with _contains(child, pos), which reads pos.pos: pos is a
\* vec2, which has no such attribute.
_query(node, pos) ==
    IF is_leaf(node)
    THEN [result |-> "ok", ret |-> node]
    ELSE [result |-> "AttributeError", ret |-> NoTree]

\* BarnesHut._bodies_overlap: dist < radius1 + radius2.
_bodies_overlap(id1, id2) ==
    /\ body[id1].radius + body[id2].radius > 0
    /\ Sq(body[id1].pos[1] - body[id2].pos[1]) + Sq(body[id1].pos[2] - body[id2].pos[2])
         < Sq(body[id1].radius + body[id2].radius)

\* One axis of _regions_overlap: |x - center| < radius + half_width.
NearAxis(node, u, rn, a) ==
    /\ LtRoot((u - rn) * Pow2(node.depth), a + 1, node.fr.D2)
    /\ GtRoot((u + rn) * Pow2(node.depth), a - 1, node.fr.D2)

\* BarnesHut._regions_overlap(body, node).
_regions_overlap(id, node) ==
    /\ NearAxis(node, U(node.fr, id)[1], body[id].radius * node.fr.n, node.a)
    /\ NearAxis(node, U(node.fr, id)[2], body[id].radius * node.fr.n, node.b)

RECURSIVE _check_overlap(_, _, _)
\* BarnesHut._check_overlap(node, root, checked) for the leaf holding body id.
\* acc is [pairs, checked]: self.overlapping_pairs and the set of pair keys.
_check_overlap(id, rt, acc) ==
    IF is_leaf(rt)
    THEN IF /\ rt.body # None
            /\ rt.body # id
            /\ _bodies_overlap(id, rt.body)
            /\ {id, rt.body} \notin acc.checked
         THEN [pairs |-> Append(acc.pairs, <<id, rt.body>>),
               checked |-> acc.checked \cup {{id, rt.body}}]
         ELSE acc
    ELSE LET visit(i, ac) == IF _regions_overlap(id, rt.children[i])
                             THEN _check_overlap(id, rt.children[i], ac)
                             ELSE ac
         IN  visit(4, visit(3, visit(2, visit(1, acc))))

RECURSIVE _compute_overlapping_pairs(_, _, _)
\* BarnesHut._compute_overlapping_pairs(node, checked), with self.root as rt.
_compute_overlapping_pairs(node, rt, acc) ==
    IF is_leaf(node)
    THEN IF node.body # None THEN _check_overlap(node.body, rt, acc) ELSE acc
    ELSE LET visit(i, ac) == _compute_overlapping_pairs(node.children[i], rt, ac)
         IN  visit(4, visit(3, visit(2, visit(1, acc))))

\* Node.mass_center, a vector of rationals: mom / mass, and vec2(0, 0) for a
\* node without mass (lines 29 and 107-108).
mass_center(node) ==
    IF node.mass > 0
    THEN <<Rat(node.mom[1], node.mass), Rat(node.mom[2], node.mass)>>
    ELSE VZero

\* Node.width: region_width = 2 * max_distance (line 216), halved at every
\* subdivision.  The bodies of the gravity specifications are placed so
\* that max_distance = sqrt(D2) / n is a rational.
width(node) == Rat(2 * Root(node.fr.D2), node.fr.n * Pow2(node.depth))

\* Body.pos as a vector of rationals.
RPos(id) == <<Rat(body[id].pos[1], 1), Rat(body[id].pos[2], 1)>>

\* gravitational_force(body1, body2), lines 228-234 of forces.py, in units of
\* G, for a body1 of mass m1 at p1 and a body or node of mass m2 at p2, the
\* two at a rational distance.  G * m1 * m2 / dist_sq is a division of
\* floats, which raises ZeroDivisionError at distance zero; a magnitude of
\* zero (an empty leaf) gives the zero vector in any direction.
gravitational_force(m1, p1, m2, p2) ==
    LET delta_pos == VSub(p2, p1)
        dist_sq == RAdd(RMul(delta_pos[1], delta_pos[1]), RMul(delta_pos[2], delta_pos[2]))
        dist == VLength(delta_pos)
    IN  IF dist_sq.n = 0
        THEN [result |-> "ZeroDivisionError", f |-> VZero]
        ELSE IF m1 * m2 = 0
        THEN [result |-> "ok", f |-> VZero]
        ELSE [result |-> "ok",
              f |-> VScale(RDiv(Rat(m1 * m2, 1), dist_sq),
                           <<RDiv(delta_pos[1], dist), RDiv(delta_pos[2], dist)>>)]

\* force_model(body, node) of _calculate_force, force_model being the
\* gravity that main() hands to compute_forces.
tree_force_model(id, node) ==
    gravitational_force(body[id].mass, RPos(id), node.mass, mass_center(node))

RECURSIVE _calculate_force(_, _)
\* BarnesHut._calculate_force(body, node, force_model), lines 166-180.  The
\* quotient node.width / d is a division of floats.  A child that raises ends
\* the sum.
_calculate_force(id, node) ==
    IF is_leaf(node) /\ node.body = id
    THEN [result |-> "ok", f |-> VZero]
    ELSE LET d == VLength(VSub(mass_center(node), RPos(id)))
         IN  IF is_leaf(node)
             THEN tree_force_model(id, node)
             ELSE IF d.n = 0
             THEN [result |-> "ZeroDivisionError", f |-> VZero]
             ELSE IF RLt(RDiv(width(node), d), theta)
             THEN tree_force_model(id, node)
             ELSE LET add(i, acc) ==
                          IF acc.result # "ok" THEN acc
                          ELSE LET c == _calculate_force(id, node.children[i])
                               IN  [result |-> c.result, f |-> VAdd(acc.f, c.f)]
                  IN  add(4, add(3, add(2, add(1, [result |-> "ok", f |-> VZero]))))

RECURSIVE ForceLoop(_, _, _, _)
\* The loop of compute_forces, lines 271-274, over the tree rt from body i of
\* ids on; without a tree, None.is_leaf() raises AttributeError.  An
\* exception ends the loop, the forces added so far stay.
ForceLoop(rt, ids, i, f) ==
    IF i > Len(ids)
    THEN [result |-> "ok", force |-> f]
    ELSE IF rt = NoTree
    THEN [result |-> "AttributeError", force |-> f]
    ELSE LET r == _calculate_force(ids[i], rt)
         IN  IF r.result # "ok"
             THEN [result |-> r.result, force |-> f]
             ELSE ForceLoop(rt, ids, i + 1, [f EXCEPT ![ids[i]] = VAdd(@, r.f)])

\* The loop's turn with the force added to both bodies.
ApplyPairSameSign(f, id1, id2, fv) ==
    [f EXCEPT ![id1] = VAdd(@, fv), ![id2] = VAdd(@, fv)]

\* One turn of the loop of compute_local_forces, lines 338-340.
ApplyPair(f, id1, id2, fv) ==
    [f EXCEPT ![id1] = VAdd(@, fv), ![id2] = VSub(@, fv)]

RECURSIVE ApplyPairs(_, _, _, _)
\* The loop of compute_local_forces from pair i on; a force model that raises
\* ends it, the forces added so far stay.
ApplyPairs(fm, pairs, i, f) ==
    IF i > Len(pairs)
    THEN [result |-> "ok", force |-> f]
    ELSE LET r == force_model(fm, pairs[i][1], pairs[i][2])
         IN  IF r.result # "ok"
             THEN [result |-> r.result, force |-> f]
             ELSE ApplyPairs(fm, pairs, i + 1, ApplyPair(f, pairs[i][1], pairs[i][2], r.f))

\* ----------------------------------------------------- tree, as observed

RECURSIVE Leaves(_)
\* The leaves of a tree that hold a body, in traversal order.
Leaves(node) ==
    IF is_leaf(node)
    THEN IF node.body # None THEN <<node>> ELSE <<>>
    ELSE Leaves(node.children[1]) \o Leaves(node.children[2])
         \o Leaves(node.children[3]) \o Leaves(node.children[4])

\* ----------------------------------------------------------------- Springs

\* Spring.MAX_SPRING_FORCE.
MAX_SPRING_FORCE == 1000000000

\* const.SPRING_STIFFNESS, SPRING_DAMPING, SPRING_BREAK_DISTANCE_FACTOR: the
\* defaults of Springs.link (const.SPRING_BREAK_FORCE is float('inf')).
SPRING_STIFFNESS == 10
SPRING_DAMPING == 1
SPRING_BREAK_DISTANCE_FACTOR == 3

\* Springs.link: the list with the spring tuple appended; without an
\* equilibrium the current distance of the bodies is taken.
link(sp, body1, body2, stiffness, damp, equilibrium, break_distance_factor, break_force) ==
    Append(sp,
        [body1 |-> body1, body2 |-> body2, stiffness |-> stiffness, damping |-> damp,
         equilibrium |->
            IF equilibrium = NoFloat
            THEN Rat(length(<<body[body2].pos[1] - body[body1].pos[1],
                              body[body2].pos[2] - body[body1].pos[2]>>), 1)
            ELSE equilibrium,
         break_distance_factor |-> break_distance_factor,
         break_force |-> break_force])

\* Springs.connected.
connected(sp, body1, body2) ==
    \E i \in 1..Len(sp) :
        \/ sp[i].body1 = body1 /\ sp[i].body2 = body2
        \/ sp[i].body1 = body2 /\ sp[i].body2 = body1

\* list.remove(s): the list without the first element equal to s.
Remove(sp, s) ==
    LET i == CHOOSE k \in 1..Len(sp) : sp[k] = s /\ \A j \in 1..(k - 1) : sp[j] # s
    IN  [k \in 1..(Len(sp) - 1) |-> IF k < i THEN sp[k] ELSE sp[k + 1]]

RECURSIVE RemoveAll(_, _, _)
\* The last loop of Springs.update, from entry i of remove_list on.
RemoveAll(sp, remove_list, i) ==
    IF i > Len(remove_list) THEN sp
    ELSE RemoveAll(Remove(sp, remove_list[i]), remove_list, i + 1)

\* The force of spring s on its first body, lines 174-175:
\* stiff * (l - equi) * d.normalize() - damp * (b1.vel - b2.vel).
spring_force(s) ==
    LET dx == body[s.body2].pos[1] - body[s.body1].pos[1]
        dy == body[s.body2].pos[2] - body[s.body1].pos[2]
        l == length(<<dx, dy>>)
        pull == RMul(Rat(s.stiffness, 1), RSub(Rat(l, 1), s.equilibrium))
        rel == VSub(vel(s.body1).v, vel(s.body2).v)
    IN  VSub(<<RMul(pull, Rat(dx, l)), RMul(pull, Rat(dy, l))>>,
             VScale(Rat(s.damping, 1), rel))

\* Lines 190-191: a force above MAX_SPRING_FORCE is cut down to it.
clamp(f) ==
    IF RLt(Rat(MAX_SPRING_FORCE, 1), VLength(f))
    THEN VScale(RDiv(Rat(MAX_SPRING_FORCE, 1), VLength(f)), f)
    ELSE f

RECURSIVE update_loop(_, _)
\* The first loop of Springs.update from spring i on.  acc holds the forces,
\* the remove_list and the exception raised, if any (Body.vel divides by the
\* time step).
update_loop(i, acc) ==
    IF i > Len(springs) THEN acc
    ELSE
      LET s == springs[i]
          drop == [acc EXCEPT !.remove_list = Append(@, s)]
      IN  IF ~Contains(bodies, s.body1) \/ ~Contains(bodies, s.body2)
          THEN update_loop(i + 1, drop)
          ELSE
            LET l == length(<<body[s.body2].pos[1] - body[s.body1].pos[1],
                              body[s.body2].pos[2] - body[s.body1].pos[2]>>)
                break_dist == RMul(s.break_distance_factor, s.equilibrium)
                f == spring_force(s)
            IN  IF RLt(break_dist, Rat(l, 1))
                THEN update_loop(i + 1, drop)
                ELSE IF 1000 * l < 1
                THEN update_loop(i + 1, acc)
                ELSE IF vel(s.body1).result # "ok"
                THEN [acc EXCEPT !.result = vel(s.body1).result]
                ELSE IF RLt(s.break_force, VLength(f))
                THEN update_loop(i + 1, drop)
                ELSE update_loop(i + 1,
                        [acc EXCEPT !.force = ApplyPair(@, s.body1, s.body2, clamp(f))])

\* The k nearest neighbours of composite[i] in the order the heap of
\* (d2, j) yields them.
RECURSIVE nearest(_, _, _, _)
nearest(composite, i, k, taken) ==
    LET rest == {j \in 1..Len(composite) : j # i /\ j \notin taken}
        d2(j) == Sq(body[composite[i]].pos[1] - body[composite[j]].pos[1])
                 + Sq(body[composite[i]].pos[2] - body[composite[j]].pos[2])
        jmin == CHOOSE j \in rest :
                    \A h \in rest : d2(j) < d2(h) \/ (d2(j) = d2(h) /\ j <= h)
    IN  IF k = 0 \/ rest = {} THEN <<>>
        ELSE <<jmin>> \o nearest(composite, i, k - 1, taken \cup {jmin})

\* The break_force handed to create_spring_mesh.
mesh_break_force == Rat(MAX_SPRING_FORCE, 1)

RECURSIVE link_all(_, _, _, _, _, _, _)
\* The links of composite[i] to its neighbours nb from entry n on.
link_all(sp, composite, i, nb, n, stiffness, damp) ==
    IF n > Len(nb) THEN sp
    ELSE link_all(link(sp, composite[i], composite[nb[n]], stiffness, damp, NoFloat,
                       Rat(SPRING_BREAK_DISTANCE_FACTOR, 1), mesh_break_force),
                  composite, i, nb, n + 1, stiffness, damp)

RECURSIVE mesh_loop(_, _, _, _, _, _)
\* The loop of create_spring_mesh from body i of the composite on.
mesh_loop(sp, composite, i, k, stiffness, damp) ==
    IF i > Len(composite) THEN sp
    ELSE mesh_loop(link_all(sp, composite, i, nearest(composite, i, k, {}), 1,
                            stiffness, damp),
                   composite, i + 1, k, stiffness, damp)

\* The arguments of generate_virtual_spring_field.
distance_threshold == 5
relative_speed_threshold == 100
field_stiffness == 10
field_damping == 10
field_break_force == 15
field_break_distance_factor == Rat(3, 2)

RECURSIVE connector_loop(_, _, _)
\* The loop of the connector of the virtual spring field from pair i on.
connector_loop(neighbors, i, acc) ==
    IF i > Len(neighbors) THEN acc
    ELSE
      LET body1 == neighbors[i][1]
          body2 == neighbors[i][2]
          delta_pos == <<body[body2].pos[1] - body[body1].pos[1],
                         body[body2].pos[2] - body[body1].pos[2]>>
          dist == length(delta_pos) - body[body1].radius - body[body2].radius
          rel_speed == VLength(VSub(vel(body2).v, vel(body1).v))
      IN  IF connected(acc.springs, body1, body2)
          THEN connector_loop(neighbors, i + 1, acc)
          ELSE IF dist > distance_threshold
          THEN connector_loop(neighbors, i + 1, acc)
          ELSE IF vel(body2).result # "ok"
          THEN [acc EXCEPT !.result = vel(body2).result]
          ELSE IF RLt(Rat(relative_speed_threshold, 1), rel_speed)
          THEN connector_loop(neighbors, i + 1, acc)
          ELSE connector_loop(neighbors, i + 1,
                  [acc EXCEPT !.springs =
                      link(@, body1, body2, field_stiffness, field_damping,
                           Rat(length(delta_pos), 1), field_break_distance_factor,
                           Rat(field_break_force, 1))])

\* The predicates handed to find_composite_bodies: the default lambda x:
\* True, and one that passes the springs of equilibrium below 2.
Preds == {"all", "short"}

\* pred(spring).
pred_holds(pred, s) ==
    IF pred = "all" THEN TRUE ELSE RLt(s.equilibrium, Rat(2, 1))

\* The edges of G after the loop of lines 126-130: one per passing spring,
\* undirected, a spring from a body to itself giving a loop.
edges(sp, pred) ==
    {{sp[i].body1, sp[i].body2} : i \in {j \in 1..Len(sp) : pred_holds(pred, sp[j])}}

\* The nodes next to a node of S, and S.
ReachOnce(E, S) == S \cup UNION {e \in E : e \cap S # {}}

RECURSIVE Reach(_, _)
\* The breadth-first search of nx.connected_components from the nodes S.
Reach(E, S) ==
    LET T == S \cup UNION {e \in E : e \cap S # {}}
    IN  IF T = S THEN S ELSE Reach(E, T)

RECURSIVE connected_components(_, _, _, _)
\* nx.connected_components(G): the nodes are visited in the order add_edge
\* met them (body1, then body2, spring by spring); a node not seen yet starts
\* a component.  acc is the list of the components found up to spring i.
connected_components(sp, pred, i, acc) ==
    IF i > Len(sp) THEN acc
    ELSE IF ~pred_holds(pred, sp[i]) THEN connected_components(sp, pred, i + 1, acc)
    ELSE LET seen(a) == UNION Range(a)
             visit(v, a) == IF v \in seen(a) THEN a
                            ELSE Append(a, Reach(edges(sp, pred), {v}))
         IN  connected_components(sp, pred, i + 1,
                 visit(sp[i].body2, visit(sp[i].body1, acc)))

\* Springs.find_composite_bodies(pred): the components of more than one
\* body, each a CompositeBody, here the set of its bodies.
find_composite_bodies(sp, pred) ==
    SelectSeq(connected_components(sp, pred, 1, <<>>), LAMBDA c : Cardinality(c) > 1)

\* ------------------------------------------------------------- convex hull

\* cross(o, a, b) of utils.
cross(o, a, b) == (a[1] - o[1]) * (b[2] - o[2]) - (a[2] - o[2]) * (b[1] - o[1])

\* The key (p.x, p.y) of p comes before or with that of q.
KeyLeq(p, q) == p[1] < q[1] \/ (p[1] = q[1] /\ p[2] <= q[2])

RECURSIVE Insert(_, _)
\* p put into the sorted list s behind the entries whose key is not larger.
Insert(s, p) ==
    IF s = <<>> THEN <<p>>
    ELSE IF KeyLeq(Head(s), p) THEN <<Head(s)>> \o Insert(Tail(s), p)
    ELSE <<p>> \o s

RECURSIVE sorted(_)
\* sorted(points, key=lambda p: (p.x, p.y)), a stable sort.
sorted(points) ==
    IF points = <<>> THEN <<>>
    ELSE Insert(sorted(SubSeq(points, 1, Len(points) - 1)), points[Len(points)])

RECURSIVE PopWhileStrict(_, _)
\* The while loop popping on a right turn only: cross(...) < 0.
PopWhileStrict(half, p) ==
    IF Len(half) >= 2 /\ cross(half[Len(half) - 1], half[Len(half)], p) < 0
    THEN PopWhileStrict(SubSeq(half, 1, Len(half) - 1), p)
    ELSE half

RECURSIVE PopWhile(_, _)
\* The while loop of lines 53-54 and 60-61: the last point of the half hull
\* is popped while it makes no left turn with p.
PopWhile(half, p) ==
    IF Len(half) >= 2 /\ cross(half[Len(half) - 1], half[Len(half)], p) <= 0
    THEN PopWhile(SubSeq(half, 1, Len(half) - 1), p)
    ELSE half

RECURSIVE HalfHull(_, _, _)
\* The loops of lines 52-55 and 59-62 over the points pts from entry i on.
HalfHull(pts, i, half) ==
    IF i > Len(pts) THEN half
    ELSE HalfHull(pts, i + 1, Append(PopWhile(half, pts[i]), pts[i]))

\* reversed(points).
reversed(pts) == [i \in 1..Len(pts) |-> pts[Len(pts) + 1 - i]]

\* ConvexHull.compute_convex_hull(points).
ConvexHull_compute_convex_hull(points) ==
    LET pts == sorted(points)
        lower == HalfHull(pts, 1, <<>>)
        upper == HalfHull(reversed(pts), 1, <<>>)
    IN  IF Len(pts) <= 1 THEN pts
        ELSE SubSeq(lower, 1, Len(lower) - 1) \o SubSeq(upper, 1, Len(upper) - 1)

\* ----------------------------------------------------------------- merging

\* merge_bodies(body1, body2) for two bodies with integer mass and radius.
\* The new body is built with mass M = m1 + m2 and radius M^(1/3); setting
\* its density to (density1 * m1 + density2 * m2) / M then sets its mass to
\* density * area, which is (m1^2 / r1^2 + m2^2 / r2^2) / M * (M^(1/3))^2
\* (pi cancels).  The record keeps that mass as coef * (cbrt^(1/3))^2 and the
\* radius as cbrt^(1/3).  Setting vel moves old_pos to pos - vel * time_step.
merge_bodies(id1, id2) ==
    LET b1 == body[id1]
        b2 == body[id2]
        new_mass == b1.mass + b2.mass
        new_pos == << Rat(b1.pos[1] * b1.mass + b2.pos[1] * b2.mass, new_mass),
                      Rat(b1.pos[2] * b1.mass + b2.pos[2] * b2.mass, new_mass) >>
        density == RAdd(Rat(Sq(b1.mass), Sq(b1.radius)), Rat(Sq(b2.mass), Sq(b2.radius)))
        new_vel == VScale(Rat(1, new_mass),
                          VAdd(VScale(Rat(b1.mass, 1), vel(id1).v),
                               VScale(Rat(b2.mass, 1), vel(id2).v)))
    IN  IF new_mass = 0 \/ b1.radius = 0 \/ b2.radius = 0 \/ time_step_ms = 0
        THEN [result |-> "ZeroDivisionError"]
        ELSE [result |-> "ok",
              b |-> [pos |-> new_pos,
                     old_pos |-> VSub(new_pos, VScale(Rat(time_step_ms, 1000), new_vel)),
                     mass |-> [coef |-> RDiv(density, Rat(new_mass, 1)), cbrt |-> new_mass],
                     radius |-> [cbrt |-> new_mass],
                     of |-> <<id1, id2>>]]

\* The handler of "merge_bodies": merge_bodies, remove_item twice, add.  An
\* exception ends it where it is raised.  w holds the body list, the bodies
\* created and their forces.
merge_body_handler(w, id1, id2) ==
    LET m == merge_bodies(id1, id2)
        made == [w EXCEPT !.body = Append(@, m.b), !.force = Append(@, VZero)]
        r1 == BodyList_remove_item(w.bodies, id1)
        r2 == BodyList_remove_item(r1.bl, id2)
        a == BodyList_add(r2.bl, Len(made.body))
    IN  IF m.result # "ok" THEN [w EXCEPT !.result = m.result]
        ELSE IF r1.result # "ok" THEN [made EXCEPT !.result = r1.result]
        ELSE IF r2.result # "ok" THEN [made EXCEPT !.result = r2.result, !.bodies = r1.bl]
        ELSE [made EXCEPT !.result = a.result, !.bodies = a.bl]

\* The argument of MergeCondtion.point_distance.
point_distance_d == 2

\* MergeCondtion.point_distance(d): (body1.pos - body2.pos).length() < d.
point_distance(id1, id2) ==
    Sq(body[id1].pos[1] - body[id2].pos[1]) + Sq(body[id1].pos[2] - body[id2].pos[2])
        < Sq(point_distance_d)

RECURSIVE merge_loop(_, _, _)
\* The loop of merge(neighbors, bodies) from pair i on; publish runs the
\* handler before it returns.  w.published lists the pairs published.
merge_loop(neighbors, i, w) ==
    IF i > Len(neighbors) THEN w
    ELSE
      LET body1 == neighbors[i][1]
          body2 == neighbors[i][2]
          h == merge_body_handler([w EXCEPT !.published = Append(@, neighbors[i])],
                                  body1, body2)
      IN  IF ~Contains(w.bodies, body1) \/ ~Contains(w.bodies, body2)
          THEN merge_loop(neighbors, i + 1, w)
          ELSE IF ~point_distance(body1, body2)
          THEN merge_loop(neighbors, i + 1, w)
          ELSE IF h.result # "ok" THEN h
          ELSE merge_loop(neighbors, i + 1, h)

\* -------------------------------------------------------------- controller

\* Controller.__init__: running and selected_body; state is the state object
\* that controller.handle_event hands the event to, Idle at the start.
Controller == [running |-> TRUE, state |-> "idle", selected_body |-> None]

\* Renderer.__init__ sets no attribute selected_body: the handlers of
\* "select_body" and "unselect_body" create it with setattr.
Renderer == [has_selected_body |-> FALSE, selected_body |-> None]

\* The handlers of "select_body", lines 20-21 of handlers.py: the renderer
\* first, then the controller.  w is [bodies, controller, renderer, result].
select_body(w, b) ==
    [w EXCEPT !.renderer = [has_selected_body |-> TRUE, selected_body |-> b],
              !.controller.selected_body = b]

\* The handlers of "unselect_body", lines 26-27.
unselect_body(w) ==
    [w EXCEPT !.renderer = [has_selected_body |-> TRUE, selected_body |-> None],
              !.controller.selected_body = None]

\* The handler of "exit", line 31.
exit(w) == [w EXCEPT !.controller.running = FALSE]

\* publish('quit') of Panning.handle_event: no handler subscribes to 'quit'
\* (event_bus.py 14-16), nothing happens.
quit(w) == w

\* controller.change_state(name), as the states call it.
change_state(w, name) == [w EXCEPT !.controller.state = name]

\* (body.pos - world_pos).length_squared() <= body.radius ** 2, line 94 of
\* idle.py.  A body made by a merge has radius M^(1/3) and a rational pos.
InDisc(b, p) ==
    IF "of" \in DOMAIN b
    THEN LET dx == RSub(b.pos[1], Rat(p[1], 1))
             dy == RSub(b.pos[2], Rat(p[2], 1))
             d2 == RAdd(RMul(dx, dx), RMul(dy, dy))
         IN  d2.n * d2.n * d2.n <= Sq(b.radius.cbrt) * d2.d * d2.d * d2.d
    ELSE Sq(b.pos[1] - p[1]) + Sq(b.pos[2] - p[2]) <= Sq(b.radius)

\* Idle.get_body_at_mouse: the first body of the list whose disc holds
\* world_pos, or None.
get_body_at_mouse(bl, world_pos) ==
    LET hit == {i \in 1..bl.count : InDisc(body[bl.slots[i]], world_pos)}
    IN  IF hit = {} THEN None
        ELSE bl.slots[CHOOSE i \in hit : \A k \in hit : i <= k]

\* Idle.handle_left_click for a click on a body, lines 36-45.
handle_left_click(w, world_pos) ==
    LET b == get_body_at_mouse(w.bodies, world_pos)
    IN  IF w.controller.selected_body # None
        THEN change_state(IF b # w.controller.selected_body
                          THEN select_body(unselect_body(w), b)
                          ELSE w,
                          "dragging")
        ELSE change_state(select_body(w, b), "dragging")

\* The keys of Idle.handle_key_up that the model presses.
Keys == {"K_r", "K_q", "K_TAB", "K_u", "K_DELETE"}

\* Idle.handle_key_up, lines 70-88.  model[0] of a list without capacity
\* raises IndexError, index of a body that is not in the list ValueError.
handle_key_up(w, key) ==
    CASE key = "K_r" -> [w EXCEPT !.bodies = BodyList_clear(w.bodies)]
      [] key = "K_q" -> exit(w)
      [] key = "K_TAB" ->
            IF w.controller.selected_body = None
            THEN IF Len(w.bodies.slots) = 0
                 THEN [w EXCEPT !.result = "IndexError"]
                 ELSE select_body(w, w.bodies.slots[1])
            ELSE LET ix == index(w.bodies, w.controller.selected_body)
                     next_body_index == IF ix.index + 1 > w.bodies.count THEN 1
                                        ELSE ix.index + 1
                 IN  IF ix.result # "ok"
                     THEN [w EXCEPT !.result = ix.result]
                     ELSE select_body(w, w.bodies.slots[next_body_index])
      [] key = "K_u" -> unselect_body(w)
      [] key = "K_DELETE" ->
            IF w.controller.selected_body # None
            THEN LET u == unselect_body(w)
                     r == BodyList_remove_item(u.bodies, w.controller.selected_body)
                 IN  [u EXCEPT !.bodies = r.bl, !.result = r.result]
            ELSE w

\* cycle_selected_body, the handler of "cycle_body", lines 58-66 of
\* handlers.py.  Reading renderer.selected_body before any select or
\* unselect raises AttributeError; a Body is true, None is false.
cycle_selected_body(w) ==
    IF ~w.renderer.has_selected_body
    THEN [w EXCEPT !.result = "AttributeError"]
    ELSE IF w.renderer.selected_body = None
    THEN w
    ELSE LET ix == index(w.bodies, w.renderer.selected_body)
             selected_index == (ix.index % w.bodies.count) + 1
         IN  IF ix.result # "ok"
             THEN [w EXCEPT !.result = ix.result]
             ELSE select_body(w, w.bodies.slots[selected_index])

\* What controller.publish('exit', {}) of Dragging.handle_event does:
\* Controller has no method publish (AttributeError), unless the controller
\* that main() builds forwards it to the event bus.
controller_publish_exit(w) == {exit(w), [w EXCEPT !.result = "AttributeError"]}

\* handle_event(event) of the state the controller is in: Idle (idle.py
\* 16-22), Panning (panning.py 9-16), Dragging (dragging.py 16-23); the set
\* of the outcomes.  'quit' has no subscriber.  A left release without
\* mouse motion before it only changes the state.
handle_event(w, event) ==
    CASE w.controller.state = "idle" ->
            IF event.type = "MOUSEBUTTONDOWN"
            THEN IF event.button = 1 THEN {handle_left_click(w, event.pos)}
                 ELSE IF event.button = 2 THEN {change_state(w, "panning")}
                 ELSE {w}
            ELSE IF event.type = "KEYUP" THEN {handle_key_up(w, event.key)}
            ELSE IF event.type = "QUIT" THEN {exit(w)}
            ELSE {w}
      [] w.controller.state = "panning" ->
            IF event.type = "MOUSEBUTTONUP"
            THEN IF event.button = 2 THEN {change_state(w, "idle")} ELSE {w}
            ELSE IF event.type = "QUIT" THEN {quit(w)}
            ELSE {w}
      [] w.controller.state = "dragging" ->
            IF event.type = "MOUSEBUTTONUP"
            THEN IF event.button = 1 THEN {change_state(w, "idle")} ELSE {w}
            ELSE IF event.type = "QUIT" THEN controller_publish_exit(w)
            ELSE {w}

\* -------------------------------------------------------------- AudioQueue

\* AudioQueue.__init__: the queue, running, the executor (shutdown) and the
\* playback thread, started and at the test of its while loop.  lock is the
\* thread inside "with self.lock" or "free".  pc is where each thread
\* stands: the playback thread, a thread that calls add() for the sounds 1,
\* 2, ... in turn (adding is the sound of the call under way) and a thread
\* that calls stop().  submitted lists the sounds handed to
\* executor.submit; late_accept and late_submit keep the sounds appended
\* after running was set to False and submitted after the shutdown.
AudioQueue ==
    [queue |-> <<>>, running |-> TRUE, shutdown |-> FALSE, lock |-> "free",
     sounds_to_play |-> <<>>, submitted |-> <<>>,
     pc |-> [playback |-> "while", adder |-> "idle", stopper |-> "idle"],
     next |-> 1, adding |-> 0, accepted |-> {}, late_accept |-> {}, late_submit |-> {}]

\* ---------------------------------------------------------------- actions

\* BarnesHut.build_tree(bodies) with the default region.  A build that
\* exhausts the resolution of a region either ends in RecursionError or
\* drops the bodies it could not place, depending on where they are.
build_tree ==
    /\ result # "RecursionError"
    /\ op' = <<"build_tree">>
    /\ overlapping_pairs' = <<>>
    /\ IF bodies.count = 0
       THEN root' = NoTree /\ result' = "ok"
       ELSE LET t == BuiltTree(Live(bodies))
            IN  \/ root' = t /\ result' = "ok"
                \/ t.exhausted /\ root' = t /\ result' = "RecursionError"
    /\ ret' = NoTree
    /\ UNCHANGED <<bodies, body, force, sim, ticks, theta, composites, springs,
                   controller, renderer, audio>>

\* BarnesHut.compute_overlapping_pairs().  Without a tree, None.is_leaf()
\* raises AttributeError.  The pairs found are appended to the list.
compute_overlapping_pairs ==
    /\ result # "RecursionError"
    /\ op' = <<"compute_overlapping_pairs", Len(overlapping_pairs)>>
    /\ IF root = NoTree
       THEN result' = "AttributeError" /\ UNCHANGED overlapping_pairs
       ELSE /\ result' = "ok"
            /\ overlapping_pairs' =
                 _compute_overlapping_pairs(root, root,
                     [pairs |-> overlapping_pairs, checked |-> {}]).pairs
            /\ Len(overlapping_pairs') <= MaxPairs
    /\ ret' = NoTree
    /\ UNCHANGED <<bodies, body, force, sim, ticks, theta, composites, root, springs,
                   controller, renderer, audio>>

\* BodyList.reset_forces().
reset_forces ==
    /\ result # "RecursionError"
    /\ op' = <<"reset_forces">>
    /\ force' = [i \in DOMAIN force |->
                    IF Contains(bodies, i) THEN VZero ELSE force[i]]
    /\ result' = "ok"
    /\ ret' = NoTree
    /\ UNCHANGED <<bodies, body, sim, ticks, theta, composites, root, overlapping_pairs, springs,
                   controller, renderer, audio>>

\* BarnesHut.compute_local_forces(force_model).  main() calls it twice a tick
\* after reset_forces; op keeps the forces before the call.
compute_local_forces(fm) ==
    /\ result # "RecursionError"
    /\ \/ \A i \in DOMAIN force : force[i] = VZero
       \/ op[1] = "compute_local_forces" /\ op[3] < MaxForceCalls
    /\ op' = <<"compute_local_forces", fm,
               IF \A i \in DOMAIN force : force[i] = VZero THEN 1 ELSE op[3] + 1, force>>
    /\ force' = ApplyPairs(fm, overlapping_pairs, 1, force).force
    /\ result' = ApplyPairs(fm, overlapping_pairs, 1, force).result
    /\ ret' = NoTree
    /\ UNCHANGED <<bodies, body, sim, ticks, theta, composites, root, overlapping_pairs, springs,
                   controller, renderer, audio>>

\* BarnesHut.compute_forces(bodies, gravity), as main() calls it after
\* reset_forces.
compute_forces ==
    /\ result # "RecursionError"
    /\ \A i \in DOMAIN force : force[i] = VZero
    /\ op' = <<"compute_forces", theta>>
    /\ force' = ForceLoop(root, Live(bodies), 1, force).force
    /\ result' = ForceLoop(root, Live(bodies), 1, force).result
    /\ ret' = NoTree
    /\ UNCHANGED <<bodies, body, sim, ticks, theta, composites, root,
                   overlapping_pairs, springs,
                   controller, renderer, audio>>

\* EventProc.step on the key b: theta += 0.5.
K_b ==
    /\ result # "RecursionError"
    /\ RLt(theta, Rat(MaxTheta, 1))
    /\ op' = <<"K_b", theta>>
    /\ theta' = RAdd(theta, theta_step)
    /\ result' = "ok"
    /\ ret' = NoTree
    /\ UNCHANGED <<bodies, body, force, sim, ticks, composites, root,
                   overlapping_pairs, springs,
                   controller, renderer, audio>>

\* EventProc.step on the key v: theta -= 0.5, and 1e-6 if that is not
\* positive.
K_v ==
    /\ result # "RecursionError"
    /\ op' = <<"K_v", theta>>
    /\ theta' = IF ~RLt(RZero, RSub(theta, theta_step))
                THEN theta_floor
                ELSE RSub(theta, theta_step)
    /\ result' = "ok"
    /\ ret' = NoTree
    /\ UNCHANGED <<bodies, body, force, sim, ticks, composites, root,
                   overlapping_pairs, springs,
                   controller, renderer, audio>>

\* BarnesHut.query(pos).
query(pos) ==
    /\ result # "RecursionError"
    /\ op' = <<"query", pos>>
    /\ IF root = NoTree
       THEN result' = "ValueError" /\ ret' = NoTree
       ELSE result' = _query(root, pos).result /\ ret' = _query(root, pos).ret
    /\ UNCHANGED <<bodies, body, force, sim, ticks, theta, composites, root, overlapping_pairs, springs,
                   controller, renderer, audio>>

\* Springs.link(body1, body2, equilibrium = equilibrium) with the defaults of
\* the other arguments.
Springs_link(body1, body2, equilibrium) ==
    /\ result # "RecursionError"
    /\ Len(springs) < MaxSprings
    /\ op' = <<"link">>
    /\ springs' = link(springs, body1, body2, SPRING_STIFFNESS, SPRING_DAMPING,
                       equilibrium, Rat(SPRING_BREAK_DISTANCE_FACTOR, 1), Inf)
    /\ result' = "ok"
    /\ ret' = NoTree
    /\ UNCHANGED <<bodies, body, force, sim, ticks, theta, composites, root, overlapping_pairs,
                   controller, renderer, audio>>

\* create_spring_mesh(springs, composite, stiffness, damping, break_force, k).
create_spring_mesh(composite, k) ==
    /\ result # "RecursionError"
    /\ op' = <<"create_spring_mesh">>
    /\ springs' = mesh_loop(springs, composite, 1, k, SPRING_STIFFNESS, SPRING_DAMPING)
    /\ Len(springs') <= MaxSprings
    /\ result' = "ok"
    /\ ret' = NoTree
    /\ UNCHANGED <<bodies, body, force, sim, ticks, theta, composites, root, overlapping_pairs,
                   controller, renderer, audio>>

\* The connector of the virtual spring field over a list of neighbour pairs.
\* The links made before an exception stay.
connector(neighbors) ==
    /\ result # "RecursionError"
    /\ op' = <<"connector">>
    /\ LET acc == connector_loop(neighbors, 1, [springs |-> springs, result |-> "ok"])
       IN  springs' = acc.springs /\ result' = acc.result
    /\ Len(springs') <= MaxSprings
    /\ ret' = NoTree
    /\ UNCHANGED <<bodies, body, force, sim, ticks, theta, composites, root, overlapping_pairs,
                   controller, renderer, audio>>

\* Springs.update(), called after reset_forces.  An exception in the first
\* loop leaves the spring list as it was; op keeps the springs and the
\* forces before the call.
Springs_update ==
    /\ result # "RecursionError"
    /\ \A i \in DOMAIN force : force[i] = VZero
    /\ op' = <<"update", springs, force>>
    /\ LET acc == update_loop(1, [force |-> force, remove_list |-> <<>>, result |-> "ok"])
       IN  /\ force' = acc.force
           /\ result' = acc.result
           /\ springs' = IF acc.result = "ok"
                         THEN RemoveAll(springs, acc.remove_list, 1)
                         ELSE springs
    /\ ret' = NoTree
    /\ UNCHANGED <<bodies, body, sim, ticks, theta, composites, root, overlapping_pairs,
                   controller, renderer, audio>>

\* springs.find_composite_bodies(pred).
Springs_find_composite_bodies(pred) ==
    /\ result # "RecursionError"
    /\ op' = <<"find_composite_bodies", pred>>
    /\ ret' = find_composite_bodies(springs, pred)
    /\ result' = "ok"
    /\ UNCHANGED <<bodies, body, force, sim, ticks, theta, composites, root,
                   overlapping_pairs, springs,
                   controller, renderer, audio>>

\* The handler of "toggle_pause": pause() when running, resume() when
\* paused; resume reads the wall clock, at now.
handle_toggle_pause(now) ==
    /\ result # "RecursionError"
    /\ now >= ticks
    /\ op' = <<"toggle_pause", sim>>
    /\ IF ~sim.paused
       THEN sim' = SimState_pause(sim) /\ ticks' = ticks
       ELSE sim' = SimState_resume(sim, now) /\ ticks' = now
    /\ result' = "ok"
    /\ ret' = NoTree
    /\ UNCHANGED <<bodies, body, force, theta, composites, root,
                   overlapping_pairs, springs,
                   controller, renderer, audio>>

\* The outcomes of barnes_hut.build_tree(bodies): the tree and the result.
BuildOutcomes ==
    IF bodies.count = 0
    THEN {[root |-> NoTree, result |-> "ok"]}
    ELSE LET t == BuiltTree(Live(bodies))
         IN  {[root |-> t, result |-> "ok"]}
             \cup (IF t.exhausted THEN {[root |-> t, result |-> "RecursionError"]} ELSE {})

\* One turn of the loop of main(), lines 152-197, the events apart: the
\* forces are reset; a paused turn waits and goes on to the next turn;
\* otherwise the tree is built and gravity evaluated, and the call of line
\* 167, barnes_hut.compute_neighborhood_pairs, raises AttributeError, BarnesHut
\* having no such method, so that the statements of lines 168-186 (local
\* forces, spring field, merging, SimState().update, springs.update,
\* bodies.update, composites.extend(springs.find_composite_bodies())) are not
\* reached.  An exception ends main().  op keeps the calls that returned and
\* whether the turn was a paused one.
tick ==
    /\ result = "ok"
    /\ ret' = NoTree
    /\ LET f0 == [i \in DOMAIN force |->
                    IF Contains(bodies, i) THEN VZero ELSE force[i]]
       IN  IF sim.paused
           THEN /\ ticks + wait_ms <= MaxWaits * wait_ms
                /\ ticks' = ticks + wait_ms
                /\ op' = <<"tick", <<"reset_forces">>, TRUE>>
                /\ force' = f0
                /\ result' = "ok"
                /\ UNCHANGED <<root, overlapping_pairs, controller, renderer, audio>>
           ELSE \E b \in BuildOutcomes :
                /\ root' = b.root
                /\ overlapping_pairs' = <<>>
                /\ ticks' = ticks
                /\ LET fl == ForceLoop(b.root, Live(bodies), 1, f0)
                   IN  IF b.result # "ok"
                       THEN /\ op' = <<"tick", <<"reset_forces">>, FALSE>>
                            /\ force' = f0
                            /\ result' = b.result
                       ELSE IF fl.result # "ok"
                       THEN /\ op' = <<"tick", <<"reset_forces", "build_tree">>, FALSE>>
                            /\ force' = fl.force
                            /\ result' = fl.result
                       ELSE /\ op' = <<"tick", <<"reset_forces", "build_tree",
                                                 "compute_forces">>, FALSE>>
                            /\ force' = fl.force
                            /\ result' = "AttributeError"
    /\ UNCHANGED <<bodies, body, sim, theta, composites, springs, controller, renderer, audio>>

\* The handler of "body_moved" for data = {body, new_pos?, new_vel?}: the
\* position is set first, then the velocity.  op keeps the body before.
move_body_handler(id, has_pos, new_pos, has_vel, new_vel) ==
    /\ result # "RecursionError"
    /\ op' = <<"body_moved", id, body[id], has_pos, new_pos, has_vel, new_vel>>
    /\ LET b1 == IF has_pos THEN Body_set_pos(body[id], new_pos) ELSE body[id]
           b2 == IF has_vel THEN Body_set_vel(b1, new_vel) ELSE b1
       IN  body' = [body EXCEPT ![id] = b2]
    /\ result' = "ok"
    /\ ret' = NoTree
    /\ UNCHANGED <<bodies, force, sim, ticks, theta, composites, root,
                   overlapping_pairs, springs,
                   controller, renderer, audio>>

\* ConvexHull(points): __init__ calls compute_convex_hull(points), points
\* being the list drawn at the start.
compute_convex_hull ==
    /\ result # "RecursionError"
    /\ op[1] = "points"
    /\ op' = <<"compute_convex_hull", op[2]>>
    /\ ret' = ConvexHull_compute_convex_hull(op[2])
    /\ result' = "ok"
    /\ UNCHANGED <<bodies, body, force, sim, ticks, theta, composites, root,
                   overlapping_pairs, springs,
                   controller, renderer, audio>>

\* The handler of "delete_body": bodies.remove_item(body).
delete_body(id) ==
    /\ result # "RecursionError"
    /\ op' = <<"delete_body">>
    /\ bodies' = BodyList_remove_item(bodies, id).bl
    /\ result' = BodyList_remove_item(bodies, id).result
    /\ ret' = NoTree
    /\ UNCHANGED <<body, force, sim, ticks, theta, composites, root, overlapping_pairs, springs,
                   controller, renderer, audio>>

\* BodyList.add(value) for a body just created; op keeps the list before the
\* call.
add(b) ==
    /\ result # "RecursionError"
    /\ Len(body) < MaxCreated
    /\ op' = <<"add", bodies>>
    /\ body' = Append(body, b)
    /\ force' = Append(force, VZero)
    /\ bodies' = BodyList_add(bodies, Len(body) + 1).bl
    /\ result' = BodyList_add(bodies, Len(body) + 1).result
    /\ ret' = NoTree
    /\ UNCHANGED <<sim, ticks, theta, composites, root, overlapping_pairs, springs,
                   controller, renderer, audio>>

\* BodyList.remove(index), index counted from 0 as in the code; op keeps the
\* index and the list before the call.
remove(i) ==
    /\ result # "RecursionError"
    /\ op' = <<"remove", i, bodies>>
    /\ bodies' = BodyList_remove(bodies, i + 1).bl
    /\ result' = BodyList_remove(bodies, i + 1).result
    /\ ret' = NoTree
    /\ UNCHANGED <<body, force, sim, ticks, theta, composites, root, overlapping_pairs, springs,
                   controller, renderer, audio>>

\* BodyList.remove_item(item); op keeps the item and the list before the
\* call.
remove_item(item) ==
    /\ result # "RecursionError"
    /\ op' = <<"remove_item", item, bodies>>
    /\ bodies' = BodyList_remove_item(bodies, item).bl
    /\ result' = BodyList_remove_item(bodies, item).result
    /\ ret' = NoTree
    /\ UNCHANGED <<body, force, sim, ticks, theta, composites, root, overlapping_pairs, springs,
                   controller, renderer, audio>>

\* BodyList.clear().
clear ==
    /\ result # "RecursionError"
    /\ op' = <<"clear">>
    /\ bodies' = BodyList_clear(bodies)
    /\ result' = "ok"
    /\ ret' = NoTree
    /\ UNCHANGED <<body, force, sim, ticks, theta, composites, root, overlapping_pairs, springs,
                   controller, renderer, audio>>

\* The condition of MergeCondtion.relative_speed(speed_threshold) called on
\* the bodies 1 and 2 (Condition.__call__).
Condition_call(speed_threshold) ==
    /\ op[1] = "init"
    /\ op' = <<"relative_speed", speed_threshold>>
    /\ result' = relative_speed(speed_threshold, 1, 2).result
    /\ ret' = [kind |-> "bool", value |-> relative_speed(speed_threshold, 1, 2).value]
    /\ UNCHANGED <<bodies, body, force, sim, ticks, theta, composites, root,
                   overlapping_pairs, springs, controller, renderer, audio>>

\* What the steps of the audio threads leave alone.
NoAudio ==
    <<bodies, body, force, sim, ticks, theta, composites, root, overlapping_pairs,
      springs, op, result, ret, controller, renderer>>

\* AudioQueue.add, line 57: the caller enters "with self.lock".
add_lock ==
    /\ audio.pc.adder = "idle" /\ audio.next <= MaxSounds /\ audio.lock = "free"
    /\ audio' = [audio EXCEPT !.lock = "adder", !.adding = audio.next,
                               !.next = @ + 1, !.pc.adder = "test"]
    /\ UNCHANGED NoAudio

\* AudioQueue.add, line 58: "if self.running"; when it is not, the call logs
\* and returns.
add_test ==
    /\ audio.pc.adder = "test"
    /\ audio' = IF audio.running
                THEN [audio EXCEPT !.pc.adder = "append"]
                ELSE [audio EXCEPT !.pc.adder = "idle", !.lock = "free", !.adding = 0]
    /\ UNCHANGED NoAudio

\* AudioQueue.add, lines 59-63: the append, and the end of the with block.
add_append ==
    /\ audio.pc.adder = "append"
    /\ audio' = [audio EXCEPT !.queue = Append(@, audio.adding),
                               !.accepted = @ \cup {audio.adding},
                               !.late_accept = IF audio.running THEN @
                                               ELSE @ \cup {audio.adding},
                               !.pc.adder = "idle", !.lock = "free", !.adding = 0]
    /\ UNCHANGED NoAudio

\* _playback_loop, line 71: "while self.running".
playback_while ==
    /\ audio.pc.playback = "while"
    /\ audio' = [audio EXCEPT !.pc.playback = IF audio.running THEN "take" ELSE "done"]
    /\ UNCHANGED NoAudio

\* _playback_loop, lines 72-77 and 87-88: the queue copied and cleared under
\* the lock; with nothing to play the thread sleeps and tests again.
playback_take ==
    /\ audio.pc.playback = "take" /\ audio.lock = "free"
    /\ audio' = [audio EXCEPT !.sounds_to_play = audio.queue, !.queue = <<>>,
                               !.pc.playback = IF audio.queue = <<>> THEN "while"
                                               ELSE "submit"]
    /\ UNCHANGED NoAudio

\* _playback_loop, lines 80-86: one turn of the for loop.  submit on an
\* executor that was shut down raises RuntimeError, which ends the thread.
playback_submit ==
    /\ audio.pc.playback = "submit"
    /\ audio' = IF audio.shutdown
                THEN [audio EXCEPT !.late_submit = @ \cup {Head(audio.sounds_to_play)},
                                   !.pc.playback = "dead"]
                ELSE [audio EXCEPT !.submitted = Append(@, Head(audio.sounds_to_play)),
                                   !.sounds_to_play = Tail(@),
                                   !.pc.playback = IF Len(audio.sounds_to_play) = 1
                                                   THEN "while" ELSE "submit"]
    /\ UNCHANGED NoAudio

\* AudioQueue.stop, line 207: self.running = False, outside the lock.
stop_running ==
    /\ audio.pc.stopper = "idle"
    /\ audio' = [audio EXCEPT !.running = FALSE, !.pc.stopper = "clear"]
    /\ UNCHANGED NoAudio

\* AudioQueue.stop, lines 208-209: the queue cleared under the lock.
stop_clear ==
    /\ audio.pc.stopper = "clear" /\ audio.lock = "free"
    /\ audio' = [audio EXCEPT !.queue = <<>>, !.pc.stopper = "shutdown"]
    /\ UNCHANGED NoAudio

\* AudioQueue.stop, lines 210-211: executor.shutdown(wait=False).
stop_shutdown ==
    /\ audio.pc.stopper = "shutdown"
    /\ audio' = [audio EXCEPT !.shutdown = TRUE, !.pc.stopper = "join"]
    /\ UNCHANGED NoAudio

\* AudioQueue.stop, line 212: playback_thread.join() returns when the thread
\* has ended.
stop_join ==
    /\ audio.pc.stopper = "join" /\ audio.pc.playback \in {"done", "dead"}
    /\ audio' = [audio EXCEPT !.pc.stopper = "done"]
    /\ UNCHANGED NoAudio

\* The handler of "clear_bodies": bodies.clear().
clear_bodies ==
    /\ result # "RecursionError"
    /\ op' = <<"clear_bodies">>
    /\ bodies' = BodyList_clear(bodies)
    /\ result' = "ok"
    /\ ret' = NoTree
    /\ UNCHANGED <<body, force, sim, ticks, theta, composites, root, overlapping_pairs, springs,
                   controller, renderer, audio>>

\* merge(neighbors, bodies) of the spontaneous body merging with the
\* condition point_distance.  op keeps the list before the pass and the
\* pairs published.
merge(neighbors) ==
    /\ result # "RecursionError"
    /\ LET w == merge_loop(neighbors, 1,
                    [bodies |-> bodies, body |-> body, force |-> force,
                     result |-> "ok", published |-> <<>>])
       IN  /\ Len(w.body) <= MaxCreated
           /\ op' = <<"merge", bodies, w.published>>
           /\ bodies' = w.bodies
           /\ body' = w.body
           /\ force' = w.force
           /\ result' = w.result
    /\ ret' = NoTree
    /\ UNCHANGED <<sim, ticks, theta, composites, root, overlapping_pairs, springs,
                   controller, renderer, audio>>

\* SimState().pause(), as handle_toggle_pause and the tests call it.
pause ==
    /\ result # "RecursionError"
    /\ op' = <<"pause", sim>>
    /\ sim' = SimState_pause(sim)
    /\ result' = "ok"
    /\ ret' = NoTree
    /\ UNCHANGED <<bodies, body, force, ticks, theta, composites, root,
                   overlapping_pairs, springs,
                   controller, renderer, audio>>

\* SimState().resume(): the wall clock is read once, at now.
resume(now) ==
    /\ result # "RecursionError"
    /\ now >= ticks
    /\ op' = <<"resume", sim, now>>
    /\ ticks' = now
    /\ sim' = SimState_resume(sim, now)
    /\ result' = "ok"
    /\ ret' = NoTree
    /\ UNCHANGED <<bodies, body, force, theta, composites, root,
                   overlapping_pairs, springs,
                   controller, renderer, audio>>

\* SimState().update(pygame.time.get_ticks()), line 179 of main.py.
update(time_ms) ==
    /\ result # "RecursionError"
    /\ time_ms >= ticks
    /\ op' = <<"update", sim, time_ms>>
    /\ ticks' = time_ms
    /\ sim' = SimState_update(sim, time_ms)
    /\ result' = "ok"
    /\ ret' = NoTree
    /\ UNCHANGED <<bodies, body, force, theta, composites, root,
                   overlapping_pairs, springs,
                   controller, renderer, audio>>

\* bodies.update(), line 181 of main.py: the integration step.
bodies_update ==
    /\ result # "RecursionError"
    /\ op' = <<"bodies_update", body>>
    /\ body' = BodyList_update(bodies, 1, body, force).body
    /\ result' = BodyList_update(bodies, 1, body, force).result
    /\ ret' = NoTree
    /\ UNCHANGED <<bodies, force, sim, ticks, theta, composites, root,
                   overlapping_pairs, springs,
                   controller, renderer, audio>>

\* controller.handle_event(event), line 153 of main.py, while the loop
\* runs.  op keeps the event and the controller before it.
Controller_handle_event(event) ==
    /\ result = "ok"
    /\ controller.running
    /\ op' = <<"handle_event", event, controller>>
    /\ \E w \in handle_event([bodies |-> bodies, controller |-> controller,
                               renderer |-> renderer, result |-> "ok"], event) :
          /\ bodies' = w.bodies
          /\ controller' = w.controller
          /\ renderer' = w.renderer
          /\ result' = w.result
    /\ ret' = NoTree
    /\ UNCHANGED <<body, force, sim, ticks, theta, composites, root, overlapping_pairs,
                   springs, audio>>

\* event_bus.publish("cycle_body", {}).
cycle_body ==
    /\ result = "ok"
    /\ controller.running
    /\ op' = <<"cycle_body", controller>>
    /\ LET w == cycle_selected_body([bodies |-> bodies, controller |-> controller,
                                     renderer |-> renderer, result |-> "ok"])
       IN  /\ controller' = w.controller
           /\ renderer' = w.renderer
           /\ result' = w.result
    /\ ret' = NoTree
    /\ UNCHANGED <<bodies, body, force, sim, ticks, theta, composites, root,
                   overlapping_pairs, springs, audio>>

\* ------------------------------------------------------------------- specs

\* Body.__init__ with the default radius: Body(pos, mass = r^3), so that
\* radius = mass^(1/3) = r.
Body(p, r) ==
    [pos |-> p, old_pos |-> p, mass |-> r * r * r, radius |-> r]

\* The bodies of a configuration: radius 2 (mass 8) at the point (1, 1),
\* radius 1 (mass 1) at the other points of the grid.
BodyChoices ==
    {Body(<<x, y>>, IF x = 1 /\ y = 1 THEN 2 ELSE 1) : x \in Coords, y \in Coords}

\* BodyList.from_list(bodies): a full list of n bodies.
InitTree ==
    /\ \E n \in 0..MaxBodies :
        /\ body \in [1..n -> BodyChoices]
        /\ bodies = [slots |-> [i \in 1..n |-> i], count |-> n]
        /\ force = [i \in 1..n |-> VZero]
    /\ sim = SimState(0)
    /\ ticks = 0
    /\ theta = Rat(1, 2)
    /\ composites = <<>>
    /\ root = NoTree
    /\ overlapping_pairs = <<>>
    /\ springs = <<>>
    /\ op = <<"init">>
    /\ result = "ok"
    /\ ret = NoTree
    /\ controller = Controller
    /\ renderer = Renderer
    /\ audio = AudioQueue

NextTree ==
    \/ build_tree
    \/ compute_overlapping_pairs
    \/ \E i \in 1..bodies.count : query(body[bodies.slots[i]].pos)

SpecTree == InitTree /\ [][NextTree]_vars

\* Bodies for the force passes: a body of radius 2 at the origin, displaced
\* by (1, 0) over the last time step, and bodies of radius 1 at rest around
\* it.
ForcePositions == {<<0, 0>>, <<1, 2>>, <<2, 1>>}
Displacements == {<<0, 0>>, <<1, 0>>}
TimeSteps == {0, 500}

MovedBody(p, d) ==
    [Body(p, IF p = <<0, 0>> THEN 2 ELSE 1) EXCEPT !.old_pos = <<p[1] - d[1], p[2] - d[2]>>]

ForceBodyChoices ==
    {MovedBody(pd[1], pd[2]) :
        pd \in {x \in ForcePositions \X Displacements : (x[1] = <<0, 0>>) <=> (x[2] # <<0, 0>>)}}

InitForces ==
    /\ \E n \in 2..MaxBodies :
        /\ body \in [1..n -> ForceBodyChoices]
        /\ bodies = [slots |-> [i \in 1..n |-> i], count |-> n]
        /\ force = [i \in 1..n |-> VZero]
    /\ \E dt \in TimeSteps : sim = SimState(dt) /\ ticks = dt
    /\ theta = Rat(1, 2)
    /\ composites = <<>>
    /\ root = NoTree
    /\ overlapping_pairs = <<>>
    /\ springs = <<>>
    /\ op = <<"init">>
    /\ result = "ok"
    /\ ret = NoTree
    /\ controller = Controller
    /\ renderer = Renderer
    /\ audio = AudioQueue

NextForces ==
    \/ reset_forces
    \/ build_tree
    \/ compute_overlapping_pairs
    \/ \E fm \in ForceModels : compute_local_forces(fm)

SpecForces == InitForces /\ [][NextForces]_vars

\* The places of the last body of the spring network.
SpringCoords == {4, 9}

\* The bodies of the spring network, on the x axis: one of radius 2 at the
\* origin, displaced by (1, 0) over the last time step, and two of radius 1
\* at rest at 1 and at x.
SpringBodies(x) ==
    << MovedBody(<<0, 0>>, <<1, 0>>), MovedBody(<<1, 0>>, <<0, 0>>),
       MovedBody(<<x, 0>>, <<0, 0>>) >>

\* The equilibrium argument of link.
Equilibria == {NoFloat, Rat(1, 1)}

\* Neighbour lists: an ordered pair of distinct live bodies, alone or
\* followed by the same two bodies in the other order.
PairLists ==
    LET P == {p \in LiveIdsOf(bodies) \X LiveIdsOf(bodies) : p[1] # p[2]}
    IN  {<<p>> : p \in P} \cup {<<p, <<p[2], p[1]>> >> : p \in P}

\* Lists of two or three distinct live bodies.
Composites ==
    LET L == LiveIdsOf(bodies)
    IN  {c \in L \X L : c[1] # c[2]}
        \cup {c \in {<<a, b, d>> : a \in L, b \in L, d \in L} :
                    c[1] # c[2] /\ c[1] # c[3] /\ c[2] # c[3]}

InitSprings ==
    /\ \E x \in SpringCoords : body = SpringBodies(x)
    /\ bodies = [slots |-> <<1, 2, 3>>, count |-> 3]
    /\ force = <<VZero, VZero, VZero>>
    /\ \E dt \in TimeSteps : sim = SimState(dt) /\ ticks = dt
    /\ theta = Rat(1, 2)
    /\ composites = <<>>
    /\ root = NoTree
    /\ overlapping_pairs = <<>>
    /\ springs = <<>>
    /\ op = <<"init">>
    /\ result = "ok"
    /\ ret = NoTree
    /\ controller = Controller
    /\ renderer = Renderer
    /\ audio = AudioQueue

NextSprings ==
    \/ \E b1 \in LiveIdsOf(bodies), b2 \in LiveIdsOf(bodies), e \in Equilibria :
          b1 # b2 /\ Springs_link(b1, b2, e)
    \/ \E c \in Composites, k \in 1..2 : create_spring_mesh(c, k)
    \/ \E nb \in PairLists : connector(nb)
    \/ Springs_update
    \/ \E id \in DOMAIN body : delete_body(id)
    \/ reset_forces

SpecSprings == InitSprings /\ [][NextSprings]_vars

\* The bodies of the body list and merge specifications: one of radius 2 at
\* the origin that has moved, ones of radius 1 at rest next to it.
ListBodyChoices ==
    {MovedBody(<<0, 0>>, <<1, 0>>), MovedBody(<<1, 0>>, <<0, 0>>), MovedBody(<<2, 1>>, <<0, 0>>)}

\* BodyList(max_bodies) with n bodies added, max_bodies from 1 to MaxBodies.
InitList ==
    /\ \E cap \in 1..MaxBodies, n \in 0..MaxBodies :
        /\ n <= cap
        /\ body \in [1..n -> ListBodyChoices]
        /\ bodies = [slots |-> [i \in 1..cap |-> IF i <= n THEN i ELSE None], count |-> n]
        /\ force = [i \in 1..n |-> VZero]
    /\ sim = SimState(0)
    /\ ticks = 0
    /\ theta = Rat(1, 2)
    /\ composites = <<>>
    /\ root = NoTree
    /\ overlapping_pairs = <<>>
    /\ springs = <<>>
    /\ op = <<"init">>
    /\ result = "ok"
    /\ ret = NoTree
    /\ controller = Controller
    /\ renderer = Renderer
    /\ audio = AudioQueue

NextList ==
    \/ \E b \in ListBodyChoices : add(b)
    \/ \E id \in DOMAIN body : delete_body(id)
    \/ clear_bodies

SpecList == InitList /\ [][NextList]_vars

\* The bodies that were not made by a merge.
Plain == {i \in DOMAIN body : "of" \notin DOMAIN body[i]}

\* Neighbour lists of one or two pairs of distinct unmerged bodies, a pair in
\* either order when alone.
NeighborLists ==
    LET P == {p \in Plain \X Plain : p[1] # p[2]}
    IN  {<<p>> : p \in P}
        \cup {<<p, q>> : p \in {x \in P : x[1] < x[2]}, q \in {x \in P : x[1] < x[2]}}

\* BodyList.from_list(bodies, max_bodies) with room for one more body.
InitMerge ==
    /\ \E n \in 2..MaxBodies :
        /\ body \in [1..n -> ListBodyChoices]
        /\ bodies = [slots |-> [i \in 1..(n + 1) |-> IF i <= n THEN i ELSE None], count |-> n]
        /\ force = [i \in 1..n |-> VZero]
    /\ \E dt \in TimeSteps : sim = SimState(dt) /\ ticks = dt
    /\ theta = Rat(1, 2)
    /\ composites = <<>>
    /\ root = NoTree
    /\ overlapping_pairs = <<>>
    /\ springs = <<>>
    /\ op = <<"init">>
    /\ result = "ok"
    /\ ret = NoTree
    /\ controller = Controller
    /\ renderer = Renderer
    /\ audio = AudioQueue

NextMerge ==
    \/ \E nb \in NeighborLists : merge(nb)
    \/ \E id \in Plain : delete_body(id)

SpecMerge == InitMerge /\ [][NextMerge]_vars

\* ------------------------------------------------------------------ claims

LiveIds == LiveIdsOf(bodies)

TotalMass == SumSeq([i \in 1..bodies.count |-> body[bodies.slots[i]].mass])

DistinctPositions ==
    \A i, j \in 1..bodies.count :
        i # j => body[bodies.slots[i]].pos # body[bodies.slots[j]].pos

\* The number of leaves of the tree that hold body id.
LeafCount(id) == Cardinality({k \in 1..Len(Leaves(root)) : Leaves(root)[k].body = id})

Built == root # NoTree /\ result # "RecursionError"

\* C1: after build_tree over a non-empty body set the root's aggregate mass
\* is the sum of the masses of all the bodies.  Stated for bodies at pairwise
\* distinct positions, where no region is ever exhausted.
C1_RootMassIsTotal ==
    (op = <<"build_tree">> /\ result = "ok" /\ bodies.count > 0 /\ DistinctPositions)
        => root.mass = TotalMass

\* C2: for bodies at pairwise distinct positions, after build_tree every body
\* is held by exactly one leaf, and query(position of a body) returns the
\* leaf holding that body.
C2_QueryFindsLeaf ==
    (op[1] = "query" /\ Built /\ DistinctPositions)
        => /\ \A id \in LiveIds : LeafCount(id) = 1
           /\ result = "ok"
           /\ is_leaf(ret)
           /\ ret.body \in LiveIds
           /\ body[ret.body].pos = op[2]

\* The unordered pairs in the overlap list, and how often each occurs.
PairSet == {{overlapping_pairs[k][1], overlapping_pairs[k][2]} : k \in 1..Len(overlapping_pairs)}

PairCount(i, j) ==
    Cardinality({k \in 1..Len(overlapping_pairs) :
                    {overlapping_pairs[k][1], overlapping_pairs[k][2]} = {i, j}})

\* C3: after build_tree and one compute_overlapping_pairs call the overlap
\* list holds each unordered pair of distinct bodies at most once, and holds
\* it iff distance < radius1 + radius2.  Stated for trees that hold every
\* body, so that a miss is a miss of the pruning.
C3_OverlapListExact ==
    (/\ op = <<"compute_overlapping_pairs", 0>>
     /\ result = "ok"
     /\ \A id \in LiveIds : LeafCount(id) = 1)
        => \A i, j \in LiveIds :
              i # j => /\ PairCount(i, j) <= 1
                       /\ ({i, j} \in PairSet <=> _bodies_overlap(i, j))

RECURSIVE TotalForce(_, _)
\* The sum of the forces f over the ids 1..n.
TotalForce(f, n) == IF n = 0 THEN VZero ELSE VAdd(f[n], TotalForce(f, n - 1))

RECURSIVE NetForce(_, _, _)
\* What the pairs from k on owe body i under force model fm: F for a pair
\* whose first body is i, -F for one whose second body is i.
NetForce(fm, k, i) ==
    IF k > Len(overlapping_pairs) THEN VZero
    ELSE LET p == overlapping_pairs[k]
             F == force_model(fm, p[1], p[2]).f
             rest == NetForce(fm, k + 1, i)
         IN  IF p[1] = i THEN VAdd(F, rest)
             ELSE IF p[2] = i THEN VSub(rest, F)
             ELSE rest

\* C4: compute_local_forces adds F to the first body of every pair of the
\* overlap list and -F to the second, and leaves the sum of the forces over
\* all bodies as it was (op[4] holds the forces before the call).
C4_ThirdLaw ==
    op[1] = "compute_local_forces"
        => /\ TotalForce(force, Len(force)) = TotalForce(op[4], Len(force))
           /\ result = "ok"
                => \A i \in DOMAIN force : force[i] = VAdd(op[4][i], NetForce(op[2], 1, i))

\* A collision-damping pass that gave some body a non-zero force.
C4_Witness ==
    /\ op[1] = "compute_local_forces"
    /\ op[2] = "collision_damping"
    /\ result = "ok"
    /\ Len(overlapping_pairs) >= 2
    /\ \E i \in DOMAIN force : force[i] # op[4][i]

\* The length of spring s exceeds break_distance_factor * equilibrium.
Overstretched(s) ==
    RLt(RMul(s.break_distance_factor, s.equilibrium),
        Rat(length(<<body[s.body2].pos[1] - body[s.body1].pos[1],
                     body[s.body2].pos[2] - body[s.body1].pos[2]>>), 1))

\* An endpoint of spring s is not in the body list.
Stale(s) == ~Contains(bodies, s.body1) \/ ~Contains(bodies, s.body2)

\* C5: a spring whose length exceeds break_distance_factor * rest length
\* when update() is called is absent from the network after the call, and
\* the call adds no force from it: an endpoint whose springs are all
\* over-stretched keeps the force it had (op[2] and op[3] hold the springs
\* and the forces before the call).
C5_OverstretchedRemoved ==
    op[1] = "update"
        => \A k \in 1..Len(op[2]) :
              Overstretched(op[2][k])
                  => /\ op[2][k] \notin Range(springs)
                     /\ \A e \in {op[2][k].body1, op[2][k].body2} :
                           (\A j \in 1..Len(op[2]) :
                               e \in {op[2][j].body1, op[2][j].body2}
                                   => Overstretched(op[2][j]))
                               => force[e] = op[3][e]

\* C6: after Springs.update() every remaining spring has both endpoints in
\* the body list; the call raises no error, and an endpoint whose springs
\* all have a deleted endpoint keeps the force it had.
C6_StalePruned ==
    op[1] = "update"
        => /\ result = "ok"
           /\ \A k \in 1..Len(springs) : ~Stale(springs[k])
           /\ \A k \in 1..Len(op[2]) :
                 Stale(op[2][k])
                     => \A e \in {op[2][k].body1, op[2][k].body2} :
                           (\A j \in 1..Len(op[2]) :
                               e \in {op[2][j].body1, op[2][j].body2} => Stale(op[2][j]))
                               => force[e] = op[3][e]

\* C7: after any sequence of link, create_spring_mesh, connector and update
\* operations the network holds at most one spring per unordered pair of
\* bodies.
C7_OneSpringPerPair ==
    \A i, j \in 1..Len(springs) :
        {springs[i].body1, springs[i].body2} = {springs[j].body1, springs[j].body2}
            => i = j

\* C8: adding a body to a BodyList that holds its maximum capacity fails
\* with IndexError and leaves the count and the stored bodies unchanged;
\* adding succeeds whenever count < capacity, the new body taking the first
\* free slot (op[2] holds the list before the call).
C8_AddAtCapacity ==
    op[1] = "add"
        => IF op[2].count = Len(op[2].slots)
           THEN result = "IndexError" /\ bodies = op[2]
           ELSE /\ result = "ok"
                /\ bodies.count = op[2].count + 1
                /\ bodies.slots[bodies.count] = Len(body)
                /\ \A i \in 1..Len(bodies.slots) :
                      i # bodies.count => bodies.slots[i] = op[2].slots[i]

\* An add on a full, non-empty list that failed.
C8_Witness ==
    /\ op[1] = "add"
    /\ op[2].count = Len(op[2].slots)
    /\ op[2].count > 1
    /\ result = "IndexError"

\* The mass coef * (cbrt^(1/3))^2 of a merged body equals the number v > 0.
MassIs(m, v) == m.coef.n * m.coef.n * m.coef.n * Sq(m.cbrt) = v * v * v * m.coef.d * m.coef.d * m.coef.d

\* Body.vel of a merged body: (pos - old_pos) / time_step.
MergedVel(b) == VScale(Rat(1000, time_step_ms), VSub(b.pos, b.old_pos))

\* C9: with a positive time step merge_bodies returns a body whose mass is
\* m1 + m2 and whose velocity is (m1 * v1 + m2 * v2) / (m1 + m2).
C9_MergeConserves ==
    \A id \in DOMAIN body :
        "of" \in DOMAIN body[id]
            => LET id1 == body[id].of[1]
                   id2 == body[id].of[2]
                   M == body[id1].mass + body[id2].mass
               IN  /\ MassIs(body[id].mass, M)
                   /\ MergedVel(body[id]) =
                        VScale(Rat(1, M), VAdd(VScale(Rat(body[id1].mass, 1), vel(id1).v),
                                               VScale(Rat(body[id2].mass, 1), vel(id2).v)))

\* C10: when a merge of A and B is handled, A and B leave the body list and
\* one merged body joins it, so that the count falls by one; within one
\* pass every body takes part in at most one merge (op[2] holds the list
\* before the pass, op[3] the pairs whose merge was published).
C10_MergeReplacesPair ==
    op[1] = "merge"
        => /\ \A k \in 1..Len(op[3]) :
                 op[3][k][1] \notin LiveIds /\ op[3][k][2] \notin LiveIds
           /\ bodies.count = op[2].count - Len(op[3])
           /\ Cardinality(LiveIds \ LiveIdsOf(op[2])) = Len(op[3])
           /\ \A j, k \in 1..Len(op[3]) :
                 j # k => {op[3][j][1], op[3][j][2]} \cap {op[3][k][1], op[3][k][2]} = {}

\* ------------------------------------------------------------------- clock

\* The wall clock readings of a run.
MaxTicks == 4
WallClock == 0..MaxTicks

InitClock ==
    /\ body = <<>>
    /\ bodies = [slots |-> <<>>, count |-> 0]
    /\ force = <<>>
    /\ sim = SimState(0)
    /\ ticks = 0
    /\ theta = Rat(1, 2)
    /\ composites = <<>>
    /\ root = NoTree
    /\ overlapping_pairs = <<>>
    /\ springs = <<>>
    /\ op = <<"init">>
    /\ result = "ok"
    /\ ret = NoTree
    /\ controller = Controller
    /\ renderer = Renderer
    /\ audio = AudioQueue

NextClock ==
    \/ pause
    \/ \E now \in WallClock : resume(now)
    \/ \E time_ms \in WallClock : update(time_ms)

SpecClock == InitClock /\ [][NextClock]_vars

\* The time step of a SimState record.
StepOf(s) == s.current_time_ms - s.last_time_ms

\* C11: paused wall-clock time adds no simulated time.  update(t) while
\* paused changes neither current nor last time; while paused, delta is the
\* time step at the moment of the pause, and right after resume the time step
\* equals it; the first update(t) after a resume at wall time r yields the
\* time step t - r, however long the pause lasted.
C11_PausedTimeIsFree ==
    [][ /\ (op'[1] = "update" /\ sim.paused) =>
              /\ sim'.current_time_ms = sim.current_time_ms
              /\ sim'.last_time_ms = sim.last_time_ms
        /\ sim'.paused => sim'.delta = StepOf(sim')
        /\ (op'[1] = "resume" /\ sim.paused) =>
              /\ ~sim'.paused
              /\ StepOf(sim') = sim.delta
              /\ StepOf(sim') = StepOf(sim)
        /\ (op[1] = "resume" /\ op[2].paused /\ op'[1] = "update") =>
              StepOf(sim') = op'[3] - op[3]
      ]_vars

\* A resume at a wall time later than the last update before the pause, the
\* time step at the pause being positive, with wall time left for an update.
C11_Witness ==
    /\ op[1] = "resume"
    /\ op[2].paused
    /\ op[2].delta > 0
    /\ op[3] > op[2].current_time_ms
    /\ ~sim.paused
    /\ ticks < MaxTicks

\* ----------------------------------------------------------------- gravity

\* The places of the bodies of the gravity pass, on the x axis; every body
\* has radius 1 and mass 1.
GravityCoords == {0, 1, 3}

\* The theta handed to BarnesHut.__init__.
ThetaChoices == {Rat(0, 1), Rat(1, 2)}

\* BarnesHut(theta) and BodyList.from_list(bodies), one update(500) of the
\* clock done.
InitGravity ==
    /\ \E n \in 0..MaxBodies :
        /\ body \in [1..n -> {Body(<<x, 0>>, 1) : x \in GravityCoords}]
        /\ bodies = [slots |-> [i \in 1..n |-> i], count |-> n]
        /\ force = [i \in 1..n |-> VZero]
    /\ sim = SimState(500)
    /\ ticks = 500
    /\ theta \in ThetaChoices
    /\ composites = <<>>
    /\ root = NoTree
    /\ overlapping_pairs = <<>>
    /\ springs = <<>>
    /\ op = <<"init">>
    /\ result = "ok"
    /\ ret = NoTree
    /\ controller = Controller
    /\ renderer = Renderer
    /\ audio = AudioQueue

NextGravity ==
    \/ reset_forces
    \/ build_tree
    \/ compute_forces
    \/ compute_overlapping_pairs
    \/ \E fm \in ForceModels : compute_local_forces(fm)
    \/ \E i \in 1..bodies.count : query(body[bodies.slots[i]].pos)
    \/ clear_bodies
    \/ K_b
    \/ K_v

SpecGravity == InitGravity /\ [][NextGravity]_vars

\* The operations of BarnesHut that read the tree.
TreeReaders == {"compute_forces", "compute_overlapping_pairs", "compute_local_forces", "query"}

\* C12: without a tree (before any build, or after build_tree on an empty
\* body set) each of compute_forces, compute_overlapping_pairs,
\* compute_local_forces and query either does nothing and succeeds or raises
\* the explicit precondition error, the ValueError of query.
C12_NoTreeIsHandled ==
    (root = NoTree /\ op[1] \in TreeReaders) => result \in {"ok", "ValueError"}

\* C13: force evaluation over a built tree does not fail, also when a body
\* lies exactly at the centre of mass of a node or at the position of an
\* empty leaf: every force model returns a defined force.
C13_ForcesDefined ==
    (root # NoTree /\ op[1] \in {"compute_forces", "compute_local_forces"}) => result = "ok"

\* C20: force evaluation never runs with a theta below the floor of 1e-6,
\* whether theta was given at construction or reached through the keys.
C20_ThetaFloor ==
    (op[1] = "compute_forces" /\ root # NoTree /\ bodies.count > 0)
        => ~RLt(theta, theta_floor)

\* -------------------------------------------------------------- composites

\* The places of the bodies of the composite specification, on the x axis,
\* all at rest with radius 1.
CompositeCoords == <<0, 1, 2, 3>>

InitComposites ==
    /\ body = [i \in 1..Len(CompositeCoords) |-> Body(<<CompositeCoords[i], 0>>, 1)]
    /\ bodies = [slots |-> [i \in 1..Len(CompositeCoords) |-> i],
                 count |-> Len(CompositeCoords)]
    /\ force = [i \in 1..Len(CompositeCoords) |-> VZero]
    /\ sim = SimState(500)
    /\ ticks = 500
    /\ theta = Rat(1, 2)
    /\ composites = <<>>
    /\ root = NoTree
    /\ overlapping_pairs = <<>>
    /\ springs = <<>>
    /\ op = <<"init">>
    /\ result = "ok"
    /\ ret = NoTree
    /\ controller = Controller
    /\ renderer = Renderer
    /\ audio = AudioQueue

NextComposites ==
    \/ \E b1 \in DOMAIN body, b2 \in DOMAIN body : Springs_link(b1, b2, NoFloat)
    \/ \E pred \in Preds : Springs_find_composite_bodies(pred)

SpecComposites == InitComposites /\ [][NextComposites]_vars

\* The passing springs between two distinct bodies, as unordered pairs.
PassingPairs(pred) ==
    {{springs[i].body1, springs[i].body2} :
        i \in {j \in 1..Len(springs) :
                  /\ pred_holds(pred, springs[j])
                  /\ springs[j].body1 # springs[j].body2}}

\* u and v are joined by a path of passing springs.
Joined(pred, u, v) ==
    \E n \in 1..Cardinality(DOMAIN body) :
        \E path \in [1..n -> DOMAIN body] :
            /\ path[1] = u
            /\ path[n] = v
            /\ \A k \in 1..(n - 1) : {path[k], path[k + 1]} \in PassingPairs(pred)

\* C14: find_composite_bodies returns one composite per connected component
\* of more than one body of the graph of the passing springs: no composite
\* twice, the composites pairwise disjoint, each of more than one body, each
\* connected and maximal, and every endpoint of a passing spring between two
\* distinct bodies in a composite.
C14_CompositesAreComponents ==
    op[1] = "find_composite_bodies" =>
        /\ \A i, j \in 1..Len(ret) : i # j => ret[i] \cap ret[j] = {}
        /\ \A i \in 1..Len(ret) :
              /\ Cardinality(ret[i]) > 1
              /\ \A u, v \in ret[i] : Joined(op[2], u, v)
              /\ \A u \in ret[i], v \in DOMAIN body :
                    Joined(op[2], u, v) => v \in ret[i]
        /\ \A e \in PassingPairs(op[2]) : \A u \in e :
              Cardinality({i \in 1..Len(ret) : u \in ret[i]}) = 1

\* A chain of two springs over three bodies, found as one composite.
C14_Witness ==
    /\ op[1] = "find_composite_bodies"
    /\ Len(ret) = 1
    /\ Cardinality(ret[1]) = 3

\* -------------------------------------------------------------------- main

\* main() up to its loop: the bodies of sun are added to the list, a spring
\* mesh is made over them and composites = [sun].
InitTick ==
    /\ \E n \in 1..MaxBodies :
        /\ body \in [1..n -> {Body(<<x, 0>>, 1) : x \in GravityCoords}]
        /\ bodies = [slots |-> [i \in 1..n |-> i], count |-> n]
        /\ force = [i \in 1..n |-> VZero]
        /\ springs = mesh_loop(<<>>, [i \in 1..n |-> i], 1, 1,
                               SPRING_STIFFNESS, SPRING_DAMPING)
        /\ composites = << 1..n >>
    /\ sim = SimState(0)
    /\ ticks = 0
    /\ theta = Rat(1, 2)
    /\ root = NoTree
    /\ overlapping_pairs = <<>>
    /\ op = <<"init">>
    /\ result = "ok"
    /\ ret = NoTree
    /\ controller = Controller
    /\ renderer = Renderer
    /\ audio = AudioQueue

\* The readings of the wall clock open to an event.
TickClock == {t \in {ticks, ticks + wait_ms} : t <= MaxWaits * wait_ms}

\* A turn of the loop of main(): an event is handled or the turn's work is
\* done.  Nothing runs after an exception has ended main().
NextTick ==
    \/ tick
    \/ result = "ok" /\ \E now \in TickClock : handle_toggle_pause(now)
    \/ result = "ok" /\ \E i \in 1..bodies.count : delete_body(bodies.slots[i])
    \/ result = "ok" /\ clear_bodies

SpecTick == InitTick /\ [][NextTick]_vars

\* The core operations of a turn in the order the specification gives them.
CoreOrder ==
    << "SimState.update", "build_tree", "compute_forces", "compute_overlapping_pairs",
       "compute_local_forces", "merge", "connector", "springs.update",
       "bodies.update", "find_composite_bodies" >>

\* C15: after a turn that was not paused the composite list holds exactly
\* the composites derived from the spring graph of that turn, none made at
\* setup or in an earlier turn.
C15_CompositesOfThisTick ==
    (op[1] = "tick" /\ ~op[3]) =>
        /\ result = "ok"
        /\ composites = find_composite_bodies(springs, "all")

\* C17: in every turn that is not paused the core operations run, in the
\* order clock advance, tree rebuild, gravity, overlap pairs, local forces,
\* merge and connect policies, spring update, integration, composite rebuild.
C17_TickOrder ==
    (op[1] = "tick" /\ ~op[3]) =>
        SelectSeq(op[2], LAMBDA c : c \in Range(CoreOrder)) = CoreOrder

\* ------------------------------------------------------------------ moving

\* The positions and the velocities handed to the handler of "body_moved".
MovePositions == {<<0, 0>>, <<1, 2>>}
Velocities == {<<0, 0>>, <<2, -4>>}

InitMove ==
    /\ \E n \in 1..2 :
        /\ body \in [1..n -> {MovedBody(p, d) : p \in MovePositions, d \in Displacements}]
        /\ bodies = [slots |-> [i \in 1..n |-> i], count |-> n]
        /\ force = [i \in 1..n |-> VZero]
    /\ \E dt \in TimeSteps : sim = SimState(dt) /\ ticks = dt
    /\ theta = Rat(1, 2)
    /\ composites = <<>>
    /\ root = NoTree
    /\ overlapping_pairs = <<>>
    /\ springs = <<>>
    /\ op = <<"init">>
    /\ result = "ok"
    /\ ret = NoTree
    /\ controller = Controller
    /\ renderer = Renderer
    /\ audio = AudioQueue

NextMove ==
    \E i \in 1..bodies.count, has_pos \in BOOLEAN, has_vel \in BOOLEAN :
        \E new_pos \in MovePositions, new_vel \in Velocities :
            /\ has_pos \/ has_vel
            /\ move_body_handler(bodies.slots[i], has_pos, new_pos, has_vel, new_vel)

SpecMove == InitMove /\ [][NextMove]_vars

\* Body.vel of a body record at the current time step (positive).
VelOf(b) ==
    << Rat(1000 * (b.pos[1] - b.old_pos[1]), time_step_ms),
       Rat(1000 * (b.pos[2] - b.old_pos[2]), time_step_ms) >>

\* C18: with a positive time step, setting the velocity of a body to v
\* leaves its position and makes its velocity read v, old_pos being
\* pos - v * dt; setting its position to p makes its position p and leaves
\* its velocity, old_pos moving by the same displacement.
C18_SettersKeepTheOther ==
    (op[1] = "body_moved" /\ time_step_ms > 0) =>
        LET before == op[3]
            after == body[op[2]]
        IN  /\ (op[6] /\ ~op[4]) =>
                  /\ after.pos = before.pos
                  /\ vel(op[2]).result = "ok"
                  /\ vel(op[2]).v = <<Rat(op[7][1], 1), Rat(op[7][2], 1)>>
                  /\ 1000 * (after.pos[1] - after.old_pos[1]) = op[7][1] * time_step_ms
                  /\ 1000 * (after.pos[2] - after.old_pos[2]) = op[7][2] * time_step_ms
            /\ (op[4] /\ ~op[6]) =>
                  /\ after.pos = op[5]
                  /\ vel(op[2]).v = VelOf(before)
                  /\ after.old_pos[1] - before.old_pos[1] = op[5][1] - before.pos[1]
                  /\ after.old_pos[2] - before.old_pos[2] = op[5][2] - before.pos[2]

\* A moving body was put at another place, the time step being positive.
C18_Witness ==
    /\ op[1] = "body_moved"
    /\ time_step_ms > 0
    /\ op[4] /\ ~op[6]
    /\ op[5] # op[3].pos
    /\ op[3].pos # op[3].old_pos

\* ------------------------------------------------------- springs, at rest

\* The spring linked last has both endpoints in the body list and its rest
\* length is the distance of its endpoints, as after a link without one.
FreshAtRest ==
    /\ op[1] = "link"
    /\ Len(springs) > 0
    /\ LET s == springs[Len(springs)]
       IN  /\ ~Stale(s)
           /\ s.equilibrium =
                 Rat(length(<<body[s.body2].pos[1] - body[s.body1].pos[1],
                              body[s.body2].pos[2] - body[s.body1].pos[2]>>), 1)

\* C19: update() called right after a link without a rest length raises
\* nothing, leaves the new spring in the network and, the new spring being
\* the only one, adds no force to its endpoints.
C19_FreshSpringAddsNoForce ==
    [][ (FreshAtRest /\ op'[1] = "update") =>
            /\ result' = "ok"
            /\ springs[Len(springs)] \in Range(springs')
            /\ Len(springs) = 1 =>
                  /\ force'[springs[1].body1] = force[springs[1].body1]
                  /\ force'[springs[1].body2] = force[springs[1].body2]
      ]_vars

\* ------------------------------------------------------------ hull, claims

\* The points handed to compute_convex_hull: lists over a grid, in any
\* order, a point possibly more than once.
Grid == Coords \X Coords
PointLists == UNION {[1..n -> Grid] : n \in 0..MaxPoints}

InitHull ==
    /\ body = <<>>
    /\ bodies = [slots |-> <<>>, count |-> 0]
    /\ force = <<>>
    /\ sim = SimState(0)
    /\ ticks = 0
    /\ theta = Rat(1, 2)
    /\ composites = <<>>
    /\ root = NoTree
    /\ overlapping_pairs = <<>>
    /\ springs = <<>>
    /\ \E points \in PointLists : op = <<"points", points>>
    /\ result = "ok"
    /\ ret = NoTree
    /\ controller = Controller
    /\ renderer = Renderer
    /\ audio = AudioQueue

NextHull == compute_convex_hull

SpecHull == InitHull /\ [][NextHull]_vars

\* p lies on the segment from a to b, the ends included.
OnSegment(p, a, b) ==
    /\ cross(a, b, p) = 0
    /\ (a[1] <= p[1] /\ p[1] <= b[1]) \/ (b[1] <= p[1] /\ p[1] <= a[1])
    /\ (a[2] <= p[2] /\ p[2] <= b[2]) \/ (b[2] <= p[2] /\ p[2] <= a[2])

\* p lies in the triangle a, b, c, the boundary included (a segment or a
\* point when a, b and c lie on one line).
InTriangle(p, a, b, c) ==
    IF cross(a, b, c) = 0
    THEN OnSegment(p, a, b) \/ OnSegment(p, b, c) \/ OnSegment(p, a, c)
    ELSE \/ cross(a, b, p) >= 0 /\ cross(b, c, p) >= 0 /\ cross(c, a, p) >= 0
         \/ cross(a, b, p) <= 0 /\ cross(b, c, p) <= 0 /\ cross(c, a, p) <= 0

\* p lies in the convex hull of the points S (in the plane a point of the
\* hull lies in a triangle of three points of S).
InHull(p, S) == \E a \in S, b \in S, c \in S : InTriangle(p, a, b, c)

\* The extreme points of S: those not in the hull of the others.
Extreme(S) == {p \in S : ~InHull(p, S \ {p})}

\* C16: compute_convex_hull returns exactly the extreme points of the point
\* set, each once for a list of distinct points: every point of the input
\* lies inside or on the polygon returned, and no interior point and no
\* point strictly inside an edge is returned.
C16_HullIsExtremePoints ==
    op[1] = "compute_convex_hull" =>
        /\ Range(ret) = Extreme(Range(op[2]))
        /\ \A p \in Range(op[2]) : InHull(p, Range(ret))
        /\ Cardinality(Range(op[2])) = Len(op[2]) => Cardinality(Range(ret)) = Len(ret)

\* Four distinct points of which one is interior or inside an edge.
C16_Witness ==
    /\ op[1] = "compute_convex_hull"
    /\ Cardinality(Range(op[2])) = 4
    /\ Len(ret) = 3

\* --------------------------------------------------------------- two bodies

\* Two bodies at rest, of masses 100 and 200 in either order of insertion:
\* the first at one of the places below, the second at one of the
\* separations from it, along an axis or along a diagonal of length 5.
TwoBodyPlaces == {<<0, 0>>, <<1, 1>>, <<-2, 5>>}
Separations ==
    {<<3, 0>>, <<0, 3>>, <<-3, 0>>, <<0, -3>>, <<3, 4>>, <<-3, 4>>, <<4, -3>>, <<-4, -3>>}
TwoBodyMasses == {<<100, 200>>, <<200, 100>>}

\* Body(pos, mass, color, radius = 1).
MassBody(p, m) == [pos |-> p, old_pos |-> p, mass |-> m, radius |-> 1]

\* BarnesHut(theta=0.5) of main(), the two bodies in the list, the clock
\* updated once so that the time step is positive.
InitTwoBody ==
    /\ \E p \in TwoBodyPlaces, s \in Separations, m \in TwoBodyMasses :
          body = <<MassBody(p, m[1]), MassBody(<<p[1] + s[1], p[2] + s[2]>>, m[2])>>
    /\ bodies = [slots |-> <<1, 2>>, count |-> 2]
    /\ force = <<VZero, VZero>>
    /\ sim \in {SimState(500), SimState(1000)}
    /\ ticks = sim.current_time_ms
    /\ theta = Rat(1, 2)
    /\ composites = <<>>
    /\ root = NoTree
    /\ overlapping_pairs = <<>>
    /\ springs = <<>>
    /\ op = <<"init">>
    /\ result = "ok"
    /\ ret = NoTree
    /\ controller = Controller
    /\ renderer = Renderer
    /\ audio = AudioQueue

\* One tick under gravity alone: lines 165, 166 and 181 of main.py.
NextTwoBody ==
    \/ op[1] = "init" /\ build_tree
    \/ op[1] = "build_tree" /\ compute_forces
    \/ op[1] = "compute_forces" /\ result = "ok" /\ bodies_update

SpecTwoBody == InitTwoBody /\ [][NextTwoBody]_vars

\* The body of mass 100 and the body of mass 200.
Light == CHOOSE i \in 1..2 : body[i].mass = 100
Heavy == CHOOSE i \in 1..2 : body[i].mass = 200

\* force / mass of a body.
Acc(i) == VScale(Rat(1, body[i].mass), force[i])

\* The force on body i points from i to body j.
Toward(i, j) ==
    LET dx == body[j].pos[1] - body[i].pos[1]
        dy == body[j].pos[2] - body[i].pos[2]
    IN  /\ RMul(force[i][1], Rat(dy, 1)) = RMul(force[i][2], Rat(dx, 1))
        /\ RLt(RZero, RAdd(RMul(force[i][1], Rat(dx, 1)), RMul(force[i][2], Rat(dy, 1))))

\* The sum over the bodies of mass * (pos - old_pos), the momentum times the
\* time step: its part free of G and its part in units of G.
Momentum ==
    [free |-> << SumSeq([i \in 1..2 |-> body[i].mass * (body[i].pos[1] - body[i].old_pos[1])]),
                 SumSeq([i \in 1..2 |-> body[i].mass * (body[i].pos[2] - body[i].old_pos[2])]) >>,
     g |-> VAdd(VScale(Rat(body[1].mass, 1), VSub(GPos(body[1]), GOld(body[1]))),
                VScale(Rat(body[2].mass, 1), VSub(GPos(body[2]), GOld(body[2]))))]

\* C21: for two bodies of masses 100 and 200 at rest, at any distance d > 0
\* in any direction, axis-aligned placements included, one tick of
\* build_tree, compute_forces with gravity and integration gives the two
\* bodies equal and opposite forces directed toward each other,
\* accelerations in the inverse ratio of the masses (2 : 1), and a total
\* momentum of zero after the step.
C21_TwoBodyStep ==
    /\ op[1] = "compute_forces" =>
          /\ result = "ok"
          /\ force[Light] = VNeg(force[Heavy])
          /\ Toward(Light, Heavy)
          /\ Toward(Heavy, Light)
          /\ Acc(Light) = VScale(Rat(-2, 1), Acc(Heavy))
    /\ op[1] = "bodies_update" =>
          /\ result = "ok"
          /\ Momentum = [free |-> <<0, 0>>, g |-> VZero]

\* --------------------------------------------------------------- controller

\* The places of the bodies on the screen, all of radius 1 and at rest.
UIPlaces == {<<0, 0>>, <<4, 0>>}

\* main() with the bodies in a full list, the handlers registered, the
\* controller idle and the clock updated once.
InitUI ==
    /\ \E n \in 1..MaxBodies :
        /\ body \in [1..n -> {Body(p, 1) : p \in UIPlaces}]
        /\ bodies = [slots |-> [i \in 1..n |-> i], count |-> n]
        /\ force = [i \in 1..n |-> VZero]
    /\ sim = SimState(500)
    /\ ticks = 500
    /\ theta = Rat(1, 2)
    /\ composites = <<>>
    /\ root = NoTree
    /\ overlapping_pairs = <<>>
    /\ springs = <<>>
    /\ op = <<"init">>
    /\ result = "ok"
    /\ ret = NoTree
    /\ controller = Controller
    /\ renderer = Renderer
    /\ audio = AudioQueue

\* A pygame event: its type and, where the type has them, button, pos (in
\* world coordinates) and key.
Event(type, button, pos, key) == [type |-> type, button |-> button, pos |-> pos, key |-> key]

\* The events of a turn: the window is closed, a button goes down on a body
\* that was not made by a merge (left) or anywhere (middle), a button goes
\* up, a key goes up.
Events ==
    {Event("QUIT", 0, <<0, 0>>, "")}
    \cup {Event("MOUSEBUTTONDOWN", 1, body[bodies.slots[i]].pos, "") :
              i \in {k \in 1..bodies.count : bodies.slots[k] \in Plain}}
    \cup {Event("MOUSEBUTTONDOWN", 2, <<0, 0>>, "")}
    \cup {Event("MOUSEBUTTONUP", b, <<0, 0>>, "") : b \in {1, 2}}
    \cup {Event("KEYUP", 0, <<0, 0>>, k) : k \in Keys}

NextUI ==
    \/ \E event \in Events : Controller_handle_event(event)
    \/ cycle_body
    \/ /\ controller.running
       /\ result = "ok"
       /\ \E neighbors \in {nb \in NeighborLists : Len(nb) = 1} : merge(neighbors)

SpecUI == InitUI /\ [][NextUI]_vars

\* C22: a window-close (QUIT) event handled in any controller state, idle,
\* panning or dragging, sets the running flag of the controller to false, so
\* that the main loop stops at its next test between ticks.
C22_QuitStopsTheLoop ==
    (op[1] = "handle_event" /\ op[2].type = "QUIT") => ~controller.running

\* C28: after any sequence of select, unselect, cycle, delete-body,
\* clear-bodies and merge events the controller and the renderer hold the
\* same selected body, and it is none or a body of the live collection.
C28_SelectionIsLive ==
    /\ controller.selected_body = renderer.selected_body
    /\ controller.selected_body = None \/ Contains(bodies, controller.selected_body)

\* ---------------------------------------------------------- tree structure

\* The region of node holds body id: center - half_width <= pos <
\* center + half_width on both axes.
InRegion(node, id) ==
    /\ InAxis(node, U(node.fr, id)[1], node.a)
    /\ InAxis(node, U(node.fr, id)[2], node.b)

\* The children of node have the four quadrants of its region as regions.
Quadrants(node) ==
    /\ Len(node.children) = 4
    /\ \A i \in 1..4 : /\ node.children[i].depth = node.depth + 1
                        /\ node.children[i].fr = node.fr
    /\ {<<node.children[i].a, node.children[i].b>> : i \in 1..4}
          = {2 * node.a - 1, 2 * node.a + 1} \X {2 * node.b - 1, 2 * node.b + 1}
    /\ \A i, j \in 1..4 :
          i # j => <<node.children[i].a, node.children[i].b>>
                     # <<node.children[j].a, node.children[j].b>>

\* The tree alone: build_tree over the body lists of InitTree.
NextBuild ==
    \/ build_tree

SpecBuild == InitTree /\ [][NextBuild]_vars

RECURSIVE WellFormed(_, _)
\* Every node of the tree is a leaf, without children, whose body if it has
\* one lies in its region (from depth inside on), or an internal node, which
\* holds no body and has the four quadrants as children.
WellFormed(node, inside) ==
    IF is_leaf(node)
    THEN node.body # None /\ node.depth >= inside => InRegion(node, node.body)
    ELSE /\ node.body = None
         /\ Quadrants(node)
         /\ \A i \in 1..4 : WellFormed(node.children[i], inside)

C25_BuildTerminates ==
    op[1] = "build_tree" => result = "ok" /\ (root # NoTree => ~root.exhausted)

\* C27: compute_overlapping_pairs called again on the same tree leaves the
\* overlap list as the first call left it: the list has the length it had
\* before the call, and no pair of bodies stands in it twice.
C27_PairsIdempotent ==
    (op[1] = "compute_overlapping_pairs" /\ result = "ok") =>
        /\ op[2] > 0 => Len(overlapping_pairs) = op[2]
        /\ \A i, j \in LiveIds : i # j => PairCount(i, j) <= 1

\* ------------------------------------------------------------- brute force

\* Bodies of mass 1 on the x axis, away from the origin.
BruteCoords == {1, 2, 3, 4}

InitBrute ==
    /\ \E n \in 0..MaxBodies :
        /\ body \in [1..n -> {Body(<<x, 0>>, 1) : x \in BruteCoords}]
        /\ bodies = [slots |-> [i \in 1..n |-> i], count |-> n]
        /\ force = [i \in 1..n |-> VZero]
    /\ sim = SimState(500)
    /\ ticks = 500
    /\ theta = Rat(0, 1)
    /\ composites = <<>>
    /\ root = NoTree
    /\ overlapping_pairs = <<>>
    /\ springs = <<>>
    /\ op = <<"init">>
    /\ result = "ok"
    /\ ret = NoTree
    /\ controller = Controller
    /\ renderer = Renderer
    /\ audio = AudioQueue

NextBrute ==
    \/ reset_forces
    \/ build_tree
    \/ root # NoTree /\ compute_forces

SpecBrute == InitBrute /\ [][NextBrute]_vars

RECURSIVE PairwiseSum(_, _, _)
\* The sum of the gravity of the bodies ids[j..] on body id, each body but id
\* itself taken alone: one row of the evaluation over all pairs.
PairwiseSum(id, ids, j) ==
    IF j > Len(ids) THEN VZero
    ELSE IF ids[j] = id THEN PairwiseSum(id, ids, j + 1)
    ELSE VAdd(gravitational_force(body[id].mass, RPos(id),
                                  body[ids[j]].mass, RPos(ids[j])).f,
              PairwiseSum(id, ids, j + 1))

\* C24: with theta = 0 no internal node passes the opening test, and
\* compute_forces on the built tree adds to every body the sum of the force
\* model applied to each other body alone, nothing for the body itself: the
\* forces of the evaluation over all pairs.  No two bodies stand at the same
\* position.
C24_ThetaZeroIsBruteForce ==
    (op[1] = "compute_forces" /\ root # NoTree /\ DistinctPositions) =>
        /\ result = "ok"
        /\ \A i \in 1..bodies.count :
              force[bodies.slots[i]] = PairwiseSum(bodies.slots[i], Live(bodies), 1)

\* ---------------------------------------------------------- the dense list

\* The methods of BodyList on the lists of InitList; remove with every index
\* from -1 to the capacity.
NextDense ==
    \/ \E b \in ListBodyChoices : add(b)
    \/ \E i \in -1..MaxBodies : remove(i)
    \/ \E item \in DOMAIN body : remove_item(item)
    \/ clear

SpecDense == InitList /\ [][NextDense]_vars

\* Slots [0, count) hold bodies, slots [count, N) are empty.
Dense(bl) ==
    /\ 0 <= bl.count /\ bl.count <= Len(bl.slots)
    /\ \A k \in 1..Len(bl.slots) : (bl.slots[k] # None) <=> (k <= bl.count)

\* The bodies of bl without the one in slot i, in their order.
Without(bl, i) ==
    [k \in 1..(bl.count - 1) |-> IF k < i THEN bl.slots[k] ELSE bl.slots[k + 1]]

\* C26: after any sequence of add, remove, remove_item and clear the list is
\* dense and bounded, 0 <= count <= N with bodies in the slots [0, count) and
\* nothing in the slots [count, N); remove(i) takes out the body at index i
\* and keeps every other body; a remove with an index out of range and a
\* remove_item of a body not in the list fail and leave the list as it was.
C26_ListStaysDense ==
    /\ Dense(bodies)
    /\ op[1] = "remove" =>
          IF 0 <= op[2] /\ op[2] < op[3].count
          THEN /\ result = "ok"
               /\ bodies.count = op[3].count - 1
               /\ Live(bodies) = Without(op[3], op[2] + 1)
          ELSE result = "IndexError" /\ bodies = op[3]
    /\ (op[1] = "remove_item" /\ ~Contains(op[3], op[2])) =>
          result # "ok" /\ bodies = op[3]

\* A remove of the first body of a full list of three.
C26_Witness ==
    /\ op[1] = "remove" /\ op[2] = 0 /\ result = "ok"
    /\ op[3].count = 3 /\ Len(op[3].slots) = 3

\* ----------------------------------------------------------- relative speed

\* The displacements of the two bodies over the last time step, and the
\* thresholds: the one of main() and zero.
SpeedDisplacements == {<<0, 0>>, <<50, 0>>, <<30, 40>>, <<60, 0>>, <<20, 10>>}
SpeedThresholds == {0, 100}
SpeedTimeSteps == {0, 500, 1000}

InitSpeed ==
    /\ body \in [1..2 -> {MovedBody(<<1, 2>>, d) : d \in SpeedDisplacements}]
    /\ bodies = [slots |-> <<1, 2>>, count |-> 2]
    /\ force = <<VZero, VZero>>
    /\ \E dt \in SpeedTimeSteps : sim = SimState(dt) /\ ticks = dt
    /\ theta = Rat(1, 2)
    /\ composites = <<>>
    /\ root = NoTree
    /\ overlapping_pairs = <<>>
    /\ springs = <<>>
    /\ op = <<"init">>
    /\ result = "ok"
    /\ ret = NoTree
    /\ controller = Controller
    /\ renderer = Renderer
    /\ audio = AudioQueue

NextSpeed ==
    \/ \E t \in SpeedThresholds : Condition_call(t)

SpecSpeed == InitSpeed /\ [][NextSpeed]_vars

\* C30: the condition of relative_speed(speed_threshold) returns True for two
\* bodies if and only if their relative speed is greater than
\* speed_threshold.
C30_TrueIffFaster ==
    op[1] = "relative_speed" =>
        /\ result = "ok"
        /\ ret.value <=> RLt(Rat(Sq(op[2]), 1), speed_sq(1, 2))

\* -------------------------------------------------------------- audio queue

InitAudio ==
    /\ bodies = [slots |-> <<>>, count |-> 0]
    /\ body = <<>>
    /\ force = <<>>
    /\ sim = SimState(500)
    /\ ticks = 500
    /\ theta = Rat(1, 2)
    /\ composites = <<>>
    /\ root = NoTree
    /\ overlapping_pairs = <<>>
    /\ springs = <<>>
    /\ op = <<"init">>
    /\ result = "ok"
    /\ ret = NoTree
    /\ controller = Controller
    /\ renderer = Renderer
    /\ audio = AudioQueue

NextAudio ==
    \/ add_lock
    \/ add_test
    \/ add_append
    \/ playback_while
    \/ playback_take
    \/ playback_submit
    \/ stop_running
    \/ stop_clear
    \/ stop_shutdown
    \/ stop_join

SpecAudio == InitAudio /\ [][NextAudio]_vars

\* The number of times sound s was handed to the executor.
Submissions(s) == Cardinality({i \in 1..Len(audio.submitted) : audio.submitted[i] = s})

\* Nothing is under way: no add holds the lock, the queue and the batch of
\* the playback thread are empty.
Quiet ==
    /\ audio.pc.adder = "idle" /\ audio.pc.playback \in {"while", "take"}
    /\ audio.queue = <<>> /\ audio.sounds_to_play = <<>>

\* C29: under any interleaving of add() calls, the playback thread and
\* stop(), every sound accepted by add() is submitted to the executor at
\* most once, and exactly once when stop() is never called (once nothing is
\* under way); no sound is accepted after stop() has set running to False;
\* the playback thread never submits to the executor after stop() has shut
\* it down.
C29_AudioQueueIsSafe ==
    /\ \A s \in audio.accepted : Submissions(s) <= 1
    /\ (audio.pc.stopper = "idle" /\ Quiet) =>
          \A s \in audio.accepted : Submissions(s) = 1
    /\ audio.late_accept = {}
    /\ audio.late_submit = {}

====
